---- MODULE Spec2Model ----
(***************************************************************************)
(* State-machine model of the in-process event bus of the collaborative    *)
(* editor (src/services/events/EventBus.ts) and of the event validation    *)
(* it imports from the middleware module.                                  *)
(*                                                                         *)
(* JavaScript runs one synchronous segment at a time: every action below   *)
(* is one synchronous segment (a public call, or the continuation of an    *)
(* await), and actions interleave only where the code awaits.              *)
(***************************************************************************)
EXTENDS Integers, Sequences, FiniteSets, TLC

(***************************************************************************)
(* Bounds of the model.                                                    *)
(***************************************************************************)
RegMaxSubscribes == 3     \* registry runs: subscribe calls
RegMaxUnsubscribes == 2   \* registry runs: unsubscribe calls
RegMaxClears == 1         \* registry runs: clear calls
ValMaxSubscribes == 1     \* validation runs: subscribe calls
ValMaxEmits == 1          \* validation runs: emit calls
FanMaxSubscribes == 2     \* fan-out runs: subscribe calls
FanMaxUnsubscribes == 1   \* fan-out runs: unsubscribe calls
FanMaxEmits == 2          \* fan-out runs: emit calls
OptMaxSubscribes == 1     \* option runs: subscribe calls
OptMaxUnsubscribes == 1   \* option runs: unsubscribe calls
OptMaxEmits == 2          \* option runs: emit calls
MwMaxUses == 2            \* middleware runs: use calls
MwMaxSubscribes == 1      \* middleware runs: subscribe calls
MwMaxEmits == 1           \* middleware runs: emit calls
ErrMaxUses == 1           \* error runs: use calls
ErrMaxSubscribes == 1     \* error runs: subscribe calls
ErrMaxClears == 1         \* error runs: clear calls
ErrMaxEmits == 1          \* error runs: emit calls
StMaxSubscribes == 1      \* statistics runs: subscribe calls
StMaxEmits == 1           \* statistics runs: emit calls
StMaxClears == 1          \* statistics runs: clear calls
TermMaxSubscribes == 2    \* termination runs: subscribe calls
TermMaxEmits == 1         \* termination runs: emit calls
LateMaxSubscribes == 2
LateMaxUnsubscribes == 1
LateMaxEmits == 1
ReMaxSubscribes == 2
ReMaxEmits == 1
SusMaxMiddleware == 3
SusMaxEmits == 2
RlMaxEmits == 3
BatMaxSize == 2
BatMaxEmits == 3
CntMaxMiddleware == 3
CntMaxClears == 1
CntMaxEmits == 1
VdMaxValidatorCalls == 3
VdMaxSubscribes == 1
VdMaxEmits == 2
TmoMaxSubscribes == 2
TmoMaxEmits == 1
FacMaxUses == 2
FacMaxSubscribes == 1
FacMaxEmits == 2
SglMaxGetInstances == 3   \* singleton runs: getInstance calls
SglMaxSubscribes == 2     \* singleton runs: subscribe calls
SglMaxUnsubscribes == 1   \* singleton runs: unsubscribe calls

Types == {"t1", "t2"}                 \* event types used as dispatch keys
FnOrder == <<"h1", "h2", "h3">>       \* handler functions owned by callers

(***************************************************************************)
(* JavaScript values of the event fields: typeof tag and printed value.    *)
(***************************************************************************)
JsUndefined == [t |-> "undefined", v |-> ""]
JsString(s) == [t |-> "string", v |-> s]
JsNumber(s) == [t |-> "number", v |-> s]
JsDate == [t |-> "object", v |-> "Date"]

\* !x
Falsy(x) ==
    \/ x.t = "undefined"
    \/ x.t = "string" /\ x.v = ""
    \/ x.t = "number" /\ x.v = "0"

IEvent(type, timestamp, source) ==
    [type |-> type, timestamp |-> timestamp, source |-> source]

\* the events the environment emits
EventPool ==
    { IEvent(JsString("t1"), JsNumber("1700"), JsString("test")),
      IEvent(JsString("t2"), JsNumber("1700"), JsString("test")),
      IEvent(JsString("t1"), JsDate, JsString("test")),
      IEvent(JsUndefined, JsNumber("1700"), JsString("test")),
      IEvent(JsString(""), JsNumber("1700"), JsString("test")),
      IEvent(JsString("t1"), JsUndefined, JsString("test")),
      IEvent(JsString("t1"), JsNumber("1700"), JsUndefined),
      IEvent(JsString("t1"), JsNumber("1700"), JsNumber("42")),
      IEvent(JsUndefined, JsUndefined, JsUndefined) }

(***************************************************************************)
(* validateEvent: the list of error messages, in the order pushed.         *)
(***************************************************************************)
\* (variant: the type of the source is not checked)
validateEventNoSourceType(event) ==
    LET e1 == IF Falsy(event.type) THEN <<"Event type is required">> ELSE <<>>
        e2 == IF Falsy(event.timestamp)
              THEN <<"Event timestamp is required">> ELSE <<>>
        e3 == IF event.source.t = "undefined"
              THEN <<"Event source is required">> ELSE <<>>
        e4 == IF event.timestamp.t # "number"
              THEN <<"Event timestamp must be a number">> ELSE <<>>
        errors == e1 \o e2 \o e3 \o e4
    IN [isValid |-> Len(errors) = 0, errors |-> errors]

validateEvent(event) ==
    LET e1 == IF Falsy(event.type) THEN <<"Event type is required">> ELSE <<>>
        e2 == IF Falsy(event.timestamp)
              THEN <<"Event timestamp is required">> ELSE <<>>
        e3 == IF Falsy(event.source)
              THEN <<"Event source is required">> ELSE <<>>
        e4 == IF event.timestamp.t # "number"
              THEN <<"Event timestamp must be a number">> ELSE <<>>
        e5 == IF event.source.t # "string"
              THEN <<"Event source must be a string">> ELSE <<>>
        errors == e1 \o e2 \o e3 \o e4 \o e5
    IN [isValid |-> Len(errors) = 0, errors |-> errors]

(***************************************************************************)
(* Handler registry entries.  A Set<EventHandler> holds function           *)
(* references in insertion order: the caller's function itself (plain), or *)
(* a wrapper closure created by one subscribe call (id = number of that    *)
(* call).                                                                  *)
(***************************************************************************)
Plain(h) == [kind |-> "plain", fn |-> h, id |-> 0]
OnceWrapper(h, n) == [kind |-> "once", fn |-> h, id |-> n]
TimeoutWrapper(h, n) == [kind |-> "timeout", fn |-> h, id |-> n]

Range(s) == {s[i] : i \in 1..Len(s)}

\* Set.prototype.add
SetAdd(s, x) == IF x \in Range(s) THEN s ELSE Append(s, x)

\* Set.prototype.delete
SetDelete(s, x) == SelectSeq(s, LAMBDA y : y # x)

\* this.handlers.get(type): an absent key is the empty sequence (the code
\* never keeps an empty Set under a key)
HandlersGet(hs, type) ==
    IF type.t = "string" /\ type.v \in Types THEN hs[type.v] ELSE <<>>

\* !this.stats.eventTypes.includes(t) => push(t)
PushType(eventTypes, t) ==
    IF t \in Range(eventTypes) THEN eventTypes ELSE Append(eventTypes, t)

\* EventBusError as the chain of codes: the error, its originalError, ...
\* ("Error" is a failure that is not a bus error)
EmitError(cause) == <<"EMIT_ERROR">> \o cause
HandlerError(cause) == <<"HANDLER_ERROR">> \o cause
ValidationError == <<"VALIDATION_ERROR">>
HandlerTimeout == <<"HANDLER_TIMEOUT">>
PlainError == <<"Error">>

VARIABLES
    env,            \* what the environment of this run does: call budgets,
                    \* the events it emits, how its handlers behave
    config,         \* this.config
    handlers,       \* this.handlers: type -> entries in insertion order
    middleware,     \* this.middleware
    validators,     \* this.validators: type -> "none" | "accept" | "reject"
    stats,          \* this.stats
    subscriptions,  \* the Subscription objects returned by subscribe, and
                    \* how many clear() calls preceded each
    thrown,         \* what the latest call of a public method threw
    nSub,           \* subscribe calls made
    nUnsub,         \* unsubscribe calls made
    nClear,         \* clear calls made
    emits,          \* the emit calls: position in emit() and its locals,
                    \* when its chain was entered, after how many clear()
                    \* calls it was called and what this.middleware was
                    \* then; the index of the middleware it is suspended in
    invocations,    \* the handler invocations made by fan-outs
    mwCalls,        \* the middleware invocations made by emits
    instance,       \* EventBus.instance: 0 (undefined) or the serial number
                    \* of the bus object it refers to
    caller,         \* what callers hold: the values getInstance returned,
                    \* and the object returned by getStats; and the
                    \* addValidator and removeValidator calls they made
    now,            \* Date.now(), in milliseconds
    closures        \* the variables captured by the middleware made by
                    \* createRateLimitMiddleware and createBatchMiddleware

vars == <<env, config, handlers, middleware, validators, stats,
          subscriptions, thrown, nSub, nUnsub, nClear, emits, invocations,
          mwCalls, instance, caller, now, closures>>

\* the static field, the clock and what lives outside the bus object
outside == <<instance, caller, now, closures>>

\* the emit calls a run can make
EmitIds == 1..env.maxEmits

IdleEmit ==
    [pc |-> "idle", event |-> IEvent(JsUndefined, JsUndefined, JsUndefined),
     chainErr |-> <<>>, unwind |-> <<>>, targets |-> <<>>,
     rejected |-> <<>>, result |-> <<>>, after |-> {}, seen |-> <<>>,
     at |-> 0, clears |-> 0, chain |-> <<>>, index |-> 0]

(***************************************************************************)
(* constructor (through getInstance(cfg)): empty registries, zeroed stats, *)
(* defaultMiddleware installed by use().                                   *)
(***************************************************************************)
Constructor(cfg) ==
    /\ instance = 1
    /\ config = cfg
    /\ handlers = [t \in Types |-> <<>>]
    /\ middleware = cfg.defaultMiddleware
    /\ validators = [t \in Types |-> "none"]
    /\ stats = [totalEventsEmitted |-> 0, activeSubscriptions |-> 0,
                middlewareCount |-> Len(cfg.defaultMiddleware),
                eventTypes |-> <<>>, errors |-> <<>>]

NoError == [code |-> "", eventType |-> ""]

\* no getInstance value and no getStats object held yet
NoCaller ==
    [instances |-> <<>>, validatorCalls |-> <<>>,
     snapshot |-> [taken |-> FALSE, aliased |-> FALSE, mutated |-> FALSE,
                   returned |-> <<>>, totalEventsEmitted |-> 0,
                   activeSubscriptions |-> 0, middlewareCount |-> 0,
                   eventTypes |-> <<>>, errors |-> <<>>]]

\* no middleware made by a factory yet.  Of createRateLimitMiddleware:
\* maxEventsPerSecond, eventTimestamps; of createBatchMiddleware: batchSize,
\* batch (its length) and timeout (a timer is armed)
NoClosures ==
    [maxEventsPerSecond |-> 0, eventTimestamps |-> <<>>,
     batchSize |-> 0, batch |-> 0, timeout |-> FALSE]

NoCallsYet ==
    /\ caller = NoCaller
    /\ now = 0
    /\ closures = NoClosures
    /\ subscriptions = <<>>
    /\ thrown = NoError
    /\ nSub = 0
    /\ nUnsub = 0
    /\ nClear = 0
    /\ emits = [e \in EmitIds |-> IdleEmit]
    /\ invocations = <<>>
    /\ mwCalls = <<>>

(***************************************************************************)
(* getInstance(cfg): constructs the bus on the first call, returns         *)
(* EventBus.instance on every call.                                        *)
(***************************************************************************)
\* (variant: every call constructs a bus)
InstanceForgotten(inst) == FALSE

\* !EventBus.instance is false
InstanceExists(inst) == inst # 0

GetInstance(cfg) ==
    /\ IF InstanceExists(instance)
       THEN UNCHANGED <<instance, config, handlers, middleware, validators,
                        stats>>
       ELSE \* new EventBus(cfg)
            /\ instance' = instance + 1
            /\ config' = cfg
            /\ handlers' = [t \in Types |-> <<>>]
            /\ middleware' = cfg.defaultMiddleware
            /\ validators' = [t \in Types |-> "none"]
            /\ stats' = [totalEventsEmitted |-> 0, activeSubscriptions |-> 0,
                         middlewareCount |-> Len(cfg.defaultMiddleware),
                         eventTypes |-> <<>>, errors |-> <<>>]
    /\ caller' = [caller EXCEPT !.instances =
           Append(@, [ref |-> instance', cfg |-> cfg])]
    /\ thrown' = NoError
    /\ UNCHANGED <<now, closures>>
    /\ UNCHANGED <<env, subscriptions, nSub, nUnsub, nClear, emits,
                   invocations, mwCalls>>

(***************************************************************************)
(* subscribe(eventType, handler, options)                                  *)
(***************************************************************************)
\* (variant: the check lets one handler too many in)
MaxListenersOffByOne(hs, eventType) ==
    Len(hs[eventType]) > config.maxListeners

\* the size check that guards the insertion
MaxListenersReached(hs, eventType) ==
    Len(hs[eventType]) >= config.maxListeners

\* the registry for eventType after a subscribe call that passed the check
SubscribeRegistry(s0, h, options, n) ==
    LET s1 == SetAdd(s0, Plain(h))
        s2 == IF options.once
              THEN SetAdd(SetDelete(s1, Plain(h)), OnceWrapper(h, n))
              ELSE s1
        s3 == IF options.timeout > 0
              THEN SetAdd(SetDelete(s2, Plain(h)), TimeoutWrapper(h, n))
              ELSE s2
    IN s3

\* subscription.handler of the returned Subscription, which is also the
\* handler its unsubscribe() passes to this.unsubscribe
SubscriptionHandler(h, options, n) ==
    IF options.timeout > 0 THEN TimeoutWrapper(h, n)
    ELSE IF options.once THEN OnceWrapper(h, n)
    ELSE Plain(h)

\* handler functions are named in the order of their first use
KnownFns == {subscriptions[i].fn : i \in 1..Len(subscriptions)}
UsableFns ==
    {FnOrder[i] : i \in {j \in 1..Len(FnOrder) :
                             j <= Cardinality(KnownFns) + 1}}

\* how many clear() calls preceded this subscribe call (kept in the runs
\* that emit, where it tells which handlers an emit may still reach)
SubscribedAfter == IF env.maxEmits > 0 THEN nClear ELSE 0

Subscribe(eventType, h, options) ==
    /\ nSub < env.maxSubscribes
    /\ h \in UsableFns
    /\ nSub' = nSub + 1
    /\ IF MaxListenersReached(handlers, eventType)
       THEN \* throw MAX_LISTENERS_EXCEEDED
            /\ thrown' = [code |-> "MAX_LISTENERS_EXCEEDED",
                          eventType |-> eventType]
            /\ UNCHANGED <<handlers, stats, subscriptions>>
       ELSE /\ handlers' = [handlers EXCEPT ![eventType] =
                   SubscribeRegistry(handlers[eventType], h, options,
                                     nSub + 1)]
            /\ stats' = [stats EXCEPT
                   !.activeSubscriptions = @ + 1,
                   !.eventTypes = PushType(@, eventType)]
            /\ subscriptions' = Append(subscriptions,
                   [eventType |-> eventType, fn |-> h,
                    handler |-> SubscriptionHandler(h, options, nSub + 1),
                    clears |-> SubscribedAfter])
            /\ thrown' = NoError
    /\ UNCHANGED outside
    /\ UNCHANGED <<env, config, middleware, validators, nUnsub, nClear,
                   emits, invocations, mwCalls>>

(***************************************************************************)
(* unsubscribe(subscription), also reached through Subscription.unsubscribe *)
(***************************************************************************)
\* the registry after this.unsubscribe({eventType, handler})
UnsubscribeHandlers(hs, eventType, handler) ==
    [hs EXCEPT ![eventType] = SetDelete(@, handler)]

\* the stats after it: the decrement is made whenever the type has a Set
UnsubscribeStats(hs, st, eventType) ==
    IF Len(hs[eventType]) > 0
    THEN [st EXCEPT !.activeSubscriptions =
              IF @ - 1 > 0 THEN @ - 1 ELSE 0]
    ELSE st

Unsubscribe(s) ==
    /\ nUnsub < env.maxUnsubscribes
    /\ s \in 1..Len(subscriptions)
    /\ handlers' = UnsubscribeHandlers(handlers, subscriptions[s].eventType,
                                       subscriptions[s].handler)
    /\ stats' = UnsubscribeStats(handlers, stats, subscriptions[s].eventType)
    /\ nUnsub' = nUnsub + 1
    /\ thrown' = NoError
    /\ UNCHANGED outside
    /\ UNCHANGED <<env, config, middleware, validators, subscriptions, nSub,
                   nClear, emits, invocations, mwCalls>>

(***************************************************************************)
(* getStats(): `{ ...this.stats }`.  The counters are copied; eventTypes   *)
(* and errors of the returned object are the arrays of this.stats          *)
(* themselves (aliased) until clear() gives this.stats new arrays.  The    *)
(* model follows one returned object.                                      *)
(***************************************************************************)
GetStats ==
    /\ ~caller.snapshot.taken
    /\ caller' = [caller EXCEPT !.snapshot =
           [taken |-> TRUE, aliased |-> TRUE, mutated |-> FALSE,
            returned |-> stats,
            totalEventsEmitted |-> stats.totalEventsEmitted,
            activeSubscriptions |-> stats.activeSubscriptions,
            middlewareCount |-> stats.middlewareCount,
            eventTypes |-> <<>>, errors |-> <<>>]]
    /\ thrown' = NoError
    /\ UNCHANGED <<instance, now, closures>>
    /\ UNCHANGED <<env, config, handlers, middleware, validators, stats,
                   subscriptions, nSub, nUnsub, nClear, emits, invocations,
                   mwCalls>>

\* what the caller reads in the returned object, given the live stats
SnapshotView(sn, st) ==
    [totalEventsEmitted |-> sn.totalEventsEmitted,
     activeSubscriptions |-> sn.activeSubscriptions,
     middlewareCount |-> sn.middlewareCount,
     eventTypes |-> IF sn.aliased THEN st.eventTypes ELSE sn.eventTypes,
     errors |-> IF sn.aliased THEN st.errors ELSE sn.errors]

\* the caller writes to the returned object: snapshot.totalEventsEmitted++,
\* snapshot.eventTypes.push('x') or snapshot.errors.push(new Error())
MutateSnapshot(field) ==
    /\ caller.snapshot.taken
    /\ ~caller.snapshot.mutated
    /\ field \in {"totalEventsEmitted", "eventTypes", "errors"}
    /\ LET sn == caller.snapshot
           sn1 == [sn EXCEPT !.mutated = TRUE]
       IN CASE field = "totalEventsEmitted" ->
                 /\ caller' = [caller EXCEPT !.snapshot =
                        [sn1 EXCEPT !.totalEventsEmitted = @ + 1]]
                 /\ UNCHANGED stats
            [] field = "eventTypes" ->
                 IF sn.aliased
                 THEN /\ stats' = [stats EXCEPT !.eventTypes = Append(@, "x")]
                      /\ caller' = [caller EXCEPT !.snapshot = sn1]
                 ELSE /\ caller' = [caller EXCEPT !.snapshot =
                             [sn1 EXCEPT !.eventTypes = Append(@, "x")]]
                      /\ UNCHANGED stats
            [] OTHER ->
                 IF sn.aliased
                 THEN /\ stats' = [stats EXCEPT
                             !.errors = Append(@, PlainError)]
                      /\ caller' = [caller EXCEPT !.snapshot = sn1]
                 ELSE /\ caller' = [caller EXCEPT !.snapshot =
                             [sn1 EXCEPT !.errors = Append(@, PlainError)]]
                      /\ UNCHANGED stats
    /\ UNCHANGED <<instance, now, closures>>
    /\ UNCHANGED <<env, config, handlers, middleware, validators,
                   subscriptions, thrown, nSub, nUnsub, nClear, emits,
                   invocations, mwCalls>>

\* clear() gives this.stats new arrays: an object returned earlier keeps
\* the old ones, which the bus no longer touches
DetachSnapshot(c, st) ==
    IF c.snapshot.aliased
    THEN [c EXCEPT !.snapshot.aliased = FALSE,
                   !.snapshot.eventTypes = st.eventTypes,
                   !.snapshot.errors = st.errors]
    ELSE c

(***************************************************************************)
(* clear()                                                                 *)
(***************************************************************************)
\* (variant: middlewareCount is zeroed with the other counters)
ClearedStatsAllZero(mw) ==
    [totalEventsEmitted |-> 0, activeSubscriptions |-> 0,
     middlewareCount |-> 0, eventTypes |-> <<>>, errors |-> <<>>]

\* the statistics object that clear() installs
ClearedStats(mw) ==
    [totalEventsEmitted |-> 0, activeSubscriptions |-> 0,
     middlewareCount |-> Len(mw), eventTypes |-> <<>>, errors |-> <<>>]

Clear ==
    /\ nClear < env.maxClears
    /\ caller' = DetachSnapshot(caller, stats)
    /\ UNCHANGED <<instance, now, closures>>
    /\ handlers' = [t \in Types |-> <<>>]
    /\ stats' = ClearedStats(middleware)
    /\ nClear' = nClear + 1
    /\ thrown' = NoError
    /\ UNCHANGED <<env, config, middleware, validators, subscriptions, nSub,
                   nUnsub, emits, invocations, mwCalls>>

(***************************************************************************)
(* use(middleware).  A middleware is named by what it does:                *)
(*   "pass"   does `await next()` and rethrows what next() rejected with   *)
(*            (loggingMiddleware, performanceMiddleware)                   *)
(*   "wrap"   errorHandlingMiddleware: `await next()`, a failure that is   *)
(*            not a bus error is rethrown wrapped in MIDDLEWARE_ERROR      *)
(*   "drop"   createFilterMiddleware(() => false): returns without next    *)
(*   "limit"  createRateLimitMiddleware(0): throws RATE_LIMIT_EXCEEDED     *)
(*   "throw"  rejects with an Error that is not a bus error                *)
(*   "defer"  awaits something that takes time before it does              *)
(*            `await next()`, as createTransformMiddleware does with an    *)
(*            asynchronous transform                                       *)
(***************************************************************************)
MwKinds == {"pass", "wrap", "drop", "limit", "throw"}

(***************************************************************************)
(* use(f(n)) for the middleware factories, whose middleware keep state:    *)
(*   "ratelimit"  createRateLimitMiddleware(n)                             *)
(*   "batch"      createBatchMiddleware(n, batchTimeout)                   *)
(*   "transform"  createTransformMiddleware(f): awaits f(event), then does *)
(*                `await next()`                                           *)
(* A run makes at most one middleware with each factory.                   *)
(***************************************************************************)
FactoryKinds == {"ratelimit", "batch", "transform"}

UseFactory(m, n) ==
    /\ Len(middleware) < env.maxMiddleware
    /\ m \in env.mwKinds \cap FactoryKinds
    /\ m \notin Range(middleware)
    /\ middleware' = Append(middleware, m)
    /\ stats' = [stats EXCEPT !.middlewareCount = @ + 1]
    /\ closures' = CASE m = "ratelimit" ->
                         [closures EXCEPT !.maxEventsPerSecond = n]
                    [] m = "batch" -> [closures EXCEPT !.batchSize = n]
                    [] OTHER -> closures
    /\ thrown' = NoError
    /\ UNCHANGED <<instance, caller, now>>
    /\ UNCHANGED <<env, config, handlers, validators, subscriptions, nSub,
                   nUnsub, nClear, emits, invocations, mwCalls>>

\* the transform that the caller passes to createTransformMiddleware:
\* e => ({ ...e, metadata: { transformed: true } })
Transform(event) ==
    [type |-> event.type, timestamp |-> event.timestamp,
     source |-> event.source, metadata |-> "transformed"]

\* const windowSize = 1000
WindowSize == 1000

\* while (eventTimestamps.length > 0 && now - eventTimestamps[0] > windowSize)
\*     eventTimestamps.shift()
RECURSIVE Evict(_, _)
Evict(ts, t) ==
    IF Len(ts) > 0 /\ t - ts[1] > WindowSize THEN Evict(Tail(ts), t) ELSE ts

\* (variant: one event more than the limit gets through)
RateLimitExceededBy(ts, max) == Len(ts) > max

\* eventTimestamps.length >= maxEventsPerSecond
RateLimitReached(ts, max) == Len(ts) >= max

\* one invocation of the rate-limit middleware at time t: "limit" (throws
\* RATE_LIMIT_EXCEEDED) or "admit" (records t and does `await next()`)
RateLimitVerdict(cl, t) ==
    IF RateLimitReached(Evict(cl.eventTimestamps, t), cl.maxEventsPerSecond)
    THEN "limit" ELSE "admit"

\* (variant: a rejected invocation is recorded too)
RateLimitAfterAll(cl, t) ==
    [cl EXCEPT !.eventTimestamps = Append(Evict(cl.eventTimestamps, t), t)]

RateLimitAfter(cl, t) ==
    LET ts == Evict(cl.eventTimestamps, t) IN
    [cl EXCEPT !.eventTimestamps =
        IF RateLimitReached(ts, cl.maxEventsPerSecond)
        THEN ts ELSE Append(ts, t)]

\* (variant: the batch middleware passes an event on only when it flushes)
BatchHoldsBack(cl) ==
    IF cl.batch + 1 >= cl.batchSize THEN "batch" ELSE "drop"

\* one invocation of the batch middleware always ends in `await next()`
BatchVerdict(cl) == "batch"

\* (variant: no timer is armed for a batch that is not full)
BatchAfterUntimed(cl) ==
    IF cl.batch + 1 >= cl.batchSize
    THEN [cl EXCEPT !.batch = 0, !.timeout = FALSE]
    ELSE [cl EXCEPT !.batch = @ + 1]

\* batch.push(event); a full batch is processed (batch = []) and its timer
\* cleared, otherwise a timer is armed unless one is
BatchAfter(cl) ==
    IF cl.batch + 1 >= cl.batchSize
    THEN [cl EXCEPT !.batch = 0, !.timeout = FALSE]
    ELSE [cl EXCEPT !.batch = @ + 1, !.timeout = TRUE]

\* the timer of the batch middleware fires: processBatch(batch)
BatchTimerFire ==
    /\ closures.timeout
    /\ closures' = [closures EXCEPT !.batch = 0, !.timeout = FALSE]
    /\ UNCHANGED <<instance, caller, now>>
    /\ UNCHANGED <<env, config, handlers, middleware, validators, stats,
                   subscriptions, thrown, nSub, nUnsub, nClear, emits,
                   invocations, mwCalls>>

\* the chain as it behaves in a descent that starts at time t
Resolve(mw, cl, t) ==
    [i \in 1..Len(mw) |->
        CASE mw[i] = "ratelimit" -> RateLimitVerdict(cl, t)
          [] mw[i] = "batch" -> BatchVerdict(cl)
          [] OTHER -> mw[i]]

\* the closures after a descent that made the given calls
AfterDescent(mw, cl, calls, t) ==
    LET reached(m) == \E i \in 1..Len(calls) : mw[calls[i].index] = m
        cl1 == IF reached("ratelimit") THEN RateLimitAfter(cl, t) ELSE cl
    IN IF reached("batch") THEN BatchAfter(cl1) ELSE cl1

\* Date.now() moves on
Instants == {0, 999, 1000, 1001}

AdvanceClock(t) ==
    /\ t \in Instants
    /\ t > now
    /\ now' = t
    /\ UNCHANGED <<instance, caller, closures>>
    /\ UNCHANGED <<env, config, handlers, middleware, validators, stats,
                   subscriptions, thrown, nSub, nUnsub, nClear, emits,
                   invocations, mwCalls>>

Use(m) ==
    /\ Len(middleware) < env.maxMiddleware
    /\ m \in env.mwKinds
    /\ middleware' = Append(middleware, m)
    /\ stats' = [stats EXCEPT !.middlewareCount = @ + 1]
    /\ thrown' = NoError
    /\ UNCHANGED outside
    /\ UNCHANGED <<env, config, handlers, validators, subscriptions, nSub,
                   nUnsub, nClear, emits, invocations, mwCalls>>

(***************************************************************************)
(* removeMiddleware(middleware): the first entry that is this function is  *)
(* spliced out; nothing happens when there is none.                        *)
(***************************************************************************)
\* this.middleware.indexOf(middleware), counted from 1; 0 for -1
IndexOf(mw, m) ==
    LET I == {i \in 1..Len(mw) : mw[i] = m}
    IN IF I = {} THEN 0 ELSE CHOOSE i \in I : \A j \in I : i <= j

\* this.middleware.splice(index, 1)
Splice(mw, index) ==
    [i \in 1..(Len(mw) - 1) |-> IF i < index THEN mw[i] ELSE mw[i + 1]]

\* (variant: the count goes down also when nothing was removed)
CountAlwaysDecremented(st, index) == [st EXCEPT !.middlewareCount = @ - 1]

\* this.stats.middlewareCount--, inside `if (index !== -1)`
CountAfterRemove(st, index) ==
    IF index # 0 THEN [st EXCEPT !.middlewareCount = @ - 1] ELSE st

RemoveMiddleware(m) ==
    LET index == IndexOf(middleware, m) IN
    /\ m \in env.mwKinds
    /\ middleware' = IF index # 0 THEN Splice(middleware, index)
                     ELSE middleware
    /\ stats' = CountAfterRemove(stats, index)
    /\ thrown' = NoError
    /\ UNCHANGED outside
    /\ UNCHANGED <<env, config, handlers, validators, subscriptions, nSub,
                   nUnsub, nClear, emits, invocations, mwCalls>>

(***************************************************************************)
(* addValidator(eventType, validator).  A validator is named by its        *)
(* verdict: "accept" returns isValid true, "reject" isValid false.          *)
(***************************************************************************)
\* (variant: a validator already registered for the type is kept)
ValidatorsSetIfAbsent(vs, eventType, v) ==
    IF vs[eventType] = "none" THEN [vs EXCEPT ![eventType] = v] ELSE vs

\* this.validators.set(eventType, validator)
ValidatorsSet(vs, eventType, v) == [vs EXCEPT ![eventType] = v]

AddValidator(eventType, v) ==
    /\ v \in env.validatorKinds
    /\ validators' = ValidatorsSet(validators, eventType, v)
    /\ caller' = [caller EXCEPT !.validatorCalls =
           Append(@, [op |-> "add", eventType |-> eventType, v |-> v])]
    /\ thrown' = NoError
    /\ UNCHANGED <<instance, now, closures>>
    /\ UNCHANGED <<env, config, handlers, middleware, stats, subscriptions,
                   nSub, nUnsub, nClear, emits, invocations, mwCalls>>

\* removeValidator(eventType): this.validators.delete(eventType)
RemoveValidator(eventType) ==
    /\ validators' = [validators EXCEPT ![eventType] = "none"]
    /\ caller' = [caller EXCEPT !.validatorCalls =
           Append(@, [op |-> "remove", eventType |-> eventType,
                      v |-> "none"])]
    /\ thrown' = NoError
    /\ UNCHANGED <<instance, now, closures>>
    /\ UNCHANGED <<env, config, handlers, middleware, stats, subscriptions,
                   nSub, nUnsub, nClear, emits, invocations, mwCalls>>

(***************************************************************************)
(* runMiddlewareChain(event).                                              *)
(* runMiddleware(index) calls middleware[index] synchronously, which calls *)
(* next() synchronously, so the whole descent is one synchronous segment   *)
(* (calls); the middleware that await next() resume afterwards, innermost  *)
(* first (unwind), and then the caller's await of the chain resumes.       *)
(***************************************************************************)
MwEnter(m, index) == [mw |-> m, index |-> index, phase |-> "enter"]
MwExit(m, index) == [mw |-> m, index |-> index, phase |-> "exit"]

RateLimitExceeded == <<"RATE_LIMIT_EXCEEDED">>
MiddlewareError(cause) == <<"MIDDLEWARE_ERROR">> \o cause

\* error instanceof EventBusError
IsBusError(err) == err # <<>> /\ err[1] # "Error"

\* (variant: the outer middleware resumes before the inner one)
ResumeOuterFirst(inner, x) == <<x>> \o inner

\* a middleware resumes when the promise of next() has settled, that is
\* after everything that next() started has resumed
ResumeAfter(inner, x) == Append(inner, x)

\* the catch of errorHandlingMiddleware
ErrorHandlingCatch(err) ==
    IF err = <<>> \/ IsBusError(err) THEN err ELSE MiddlewareError(err)

RECURSIVE runMiddleware(_, _)
runMiddleware(mw, index) ==
    IF index = Len(mw) + 1
    THEN [calls |-> <<>>, unwind |-> <<>>, err |-> <<>>]
    ELSE IF index > Len(mw) + 1
    THEN \* this.middleware[index] is undefined: calling it is a TypeError
         [calls |-> <<>>, unwind |-> <<>>, err |-> PlainError]
    ELSE LET m == mw[index]
             r == runMiddleware(mw, index + 1)
         IN CASE m \in {"pass", "admit", "transform", "batch"} ->
                   [calls |-> <<MwEnter(m, index)>> \o r.calls,
                    unwind |-> ResumeAfter(r.unwind, MwExit(m, index)),
                    err |-> r.err]
              [] m = "wrap" ->
                   [calls |-> <<MwEnter(m, index)>> \o r.calls,
                    unwind |-> ResumeAfter(r.unwind, MwExit(m, index)),
                    err |-> ErrorHandlingCatch(r.err)]
              [] m = "defer" ->
                   \* suspended before next(): the descent ends here, and
                   \* the middleware resumes after what next() will start
                   [calls |-> <<MwEnter(m, index)>>,
                    unwind |-> <<MwExit(m, index)>>, err |-> <<>>]
              [] m = "drop" ->
                   [calls |-> <<MwEnter(m, index), MwExit(m, index)>>,
                    unwind |-> <<>>, err |-> <<>>]
              [] m = "limit" ->
                   [calls |-> <<MwEnter(m, index), MwExit(m, index)>>,
                    unwind |-> <<>>, err |-> RateLimitExceeded]
              [] OTHER ->
                   [calls |-> <<MwEnter(m, index), MwExit(m, index)>>,
                    unwind |-> <<>>, err |-> PlainError]

\* (variant: a failure of the chain is not passed on to emit)
runMiddlewareChainSwallowed(mw) == [runMiddleware(mw, 1) EXCEPT !.err = <<>>]

runMiddlewareChain(mw) == runMiddleware(mw, 1)

(***************************************************************************)
(* emit(event)                                                             *)
(***************************************************************************)
\* (variant: the catch rethrows without recording)
EmitCatchUnrecorded(st, cause) == st

\* (variant: the catch also counts the emit and notes its type)
EmitCatchCounted(st, cause) ==
    [st EXCEPT !.errors = Append(@, EmitError(cause)),
               !.totalEventsEmitted = @ + 1]

\* the catch block of emit: wrap, record in stats.errors, rethrow
EmitCatch(st, cause) == [st EXCEPT !.errors = Append(@, EmitError(cause))]

\* the middleware steps of emit e, as recorded in mwCalls
MwCallsBy(e, steps) ==
    [i \in 1..Len(steps) |->
        [emit |-> e, mw |-> steps[i].mw, index |-> steps[i].index,
         phase |-> steps[i].phase]]

\* the index of the middleware in which a descent got suspended, or 0
SuspendedAt(calls) ==
    IF calls # <<>> /\ calls[Len(calls)].mw = "defer"
          /\ calls[Len(calls)].phase = "enter"
    THEN calls[Len(calls)].index ELSE 0

\* `await this.runMiddlewareChain(event)`: the descent of the chain
EnterChain(e, em) ==
    LET r == runMiddlewareChain(Resolve(middleware, closures, now)) IN
    /\ emits' = [emits EXCEPT ![e] =
           [em EXCEPT !.pc = IF SuspendedAt(r.calls) # 0
                             THEN "suspended" ELSE "chain",
                      !.index = SuspendedAt(r.calls),
                      !.chainErr = r.err,
                      !.unwind = r.unwind,
                      !.at = now]]
    /\ mwCalls' = mwCalls \o MwCallsBy(e, r.calls)
    /\ closures' = AfterDescent(middleware, closures, r.calls, now)

StartedEmits == {e \in EmitIds : emits[e].pc # "idle"}
DoneEmits == {e \in EmitIds : emits[e].pc = "done"}

\* the call emit(event) up to its first await
EmitStart(event) ==
    LET e == Cardinality(StartedEmits) + 1
        em == [IdleEmit EXCEPT !.event = event, !.after = DoneEmits,
                               !.seen = HandlersGet(handlers, event.type),
                               !.clears = nClear, !.chain = middleware]
    IN
    /\ e <= env.maxEmits
    /\ event \in env.events
    /\ IF config.enableValidation
       THEN \* await import('@/services/events/middleware')
            /\ emits' = [emits EXCEPT ![e] = [em EXCEPT !.pc = "import"]]
            /\ UNCHANGED <<mwCalls, closures>>
       ELSE EnterChain(e, em)
    /\ thrown' = NoError
    /\ UNCHANGED <<instance, caller, now>>
    /\ UNCHANGED <<env, config, handlers, middleware, validators, stats,
                   subscriptions, nSub, nUnsub, nClear, invocations>>

\* this.validators.get(event.type)
ValidatorsGet(type) ==
    IF type.t = "string" /\ type.v \in Types THEN validators[type.v]
    ELSE "none"

\* after the import: built-in validation, custom validator, chain descent
EmitValidate(e) ==
    /\ emits[e].pc = "import"
    /\ IF \/ ~validateEvent(emits[e].event).isValid
          \/ ValidatorsGet(emits[e].event.type) = "reject"
       THEN \* throw VALIDATION_ERROR, caught by emit's catch
            /\ emits' = [emits EXCEPT ![e].pc = "done",
                                      ![e].result = EmitError(ValidationError)]
            /\ stats' = EmitCatch(stats, ValidationError)
            /\ UNCHANGED <<mwCalls, closures>>
       ELSE /\ EnterChain(e, emits[e])
            /\ UNCHANGED stats
    /\ UNCHANGED <<instance, caller, now>>
    /\ UNCHANGED <<env, config, handlers, middleware, validators,
                   subscriptions, thrown, nSub, nUnsub, nClear, invocations>>

\* the middleware in which emit e is suspended calls next(): the descent
\* goes on from the next index of this.middleware as it is now.  What
\* next() rejects with passes through the suspended middleware and those
\* around it, of which an errorHandlingMiddleware wraps it.
ChainResume(e) ==
    /\ emits[e].pc = "suspended"
    /\ LET em == emits[e]
           r == runMiddleware(Resolve(middleware, closures, now),
                              em.index + 1)
           wrapped == \E i \in 1..Len(em.unwind) : em.unwind[i].mw = "wrap"
       IN
       /\ emits' = [emits EXCEPT ![e] =
              [em EXCEPT !.pc = IF SuspendedAt(r.calls) # 0
                                THEN "suspended" ELSE "chain",
                         !.index = SuspendedAt(r.calls),
                         !.chainErr = IF wrapped
                                      THEN ErrorHandlingCatch(r.err)
                                      ELSE r.err,
                         !.unwind = r.unwind \o em.unwind]]
       /\ mwCalls' = mwCalls \o MwCallsBy(e, r.calls)
       /\ closures' = AfterDescent(middleware, closures, r.calls, now)
    /\ UNCHANGED <<instance, caller, now>>
    /\ UNCHANGED <<env, config, handlers, middleware, validators, stats,
                   subscriptions, thrown, nSub, nUnsub, nClear, invocations>>

\* the behaviours with which the caller's function returns at once: "sub"
\* subscribes another function to the type of the event and returns,
\* "unsub" unsubscribes the handler registered last for the type (unless
\* that is the handler running) and returns
Returning == {"ok", "sub", "unsub"}

\* handler(event) for one registry entry: "ok" returns, "throw" throws
\* synchronously, "pending" returns a promise that is still pending.
\* A plain entry is the caller's function; a wrapper is an async function,
\* so a synchronous throw of the wrapped function rejects its promise.
Invoke(e, event, entry, behaviour) ==
    [emit |-> e, handler |-> entry, arg |-> event, did |-> behaviour,
     orig |-> CASE behaviour \in Returning -> "ok"
                [] behaviour = "throw" -> "failed"
                [] OTHER -> "running",
     prom |-> CASE behaviour = "throw" ->
                     IF entry.kind = "plain" THEN "thrown" ELSE "rejected"
                [] behaviour \in Returning ->
                     IF entry.kind = "plain" THEN "resolved" ELSE "pending"
                [] OTHER -> "pending",
     cause |-> IF behaviour = "throw" THEN PlainError ELSE <<>>]

\* the index of the first invocation whose promise is rejected, or 0
FirstRejected(invs) ==
    LET R == {i \in 1..Len(invs) : invs[i].prom = "rejected"}
    IN IF R = {} THEN 0 ELSE CHOOSE i \in R : \A j \in R : i <= j

\* Array.from(handlers).map(handler => ...): the invocations made, in
\* insertion order, up to and including the first synchronous throw
FanOut(e, event, targets, b) ==
    LET T == {i \in 1..Len(targets) :
                 targets[i].kind = "plain" /\ b[i] = "throw"}
        last_i == IF T = {} THEN Len(targets)
                  ELSE CHOOSE i \in T : \A j \in T : i <= j
    IN [i \in 1..last_i |-> Invoke(e, event, targets[i], b[i])]

\* (variant: the fan-out walks the live Set, so a handler that an earlier
\* handler of this fan-out unsubscribed is not reached)
LiveTargets(targets, b) ==
    IF \E i \in 1..(Len(targets) - 1) : b[i] = "unsub"
    THEN SubSeq(targets, 1, Len(targets) - 1)
    ELSE targets

\* Array.from(handlers): the fan-out walks a copy of the Set, taken before
\* the first handler is called
ArrayFrom(targets, b) == targets

\* what the body of an invoked handler does to the registry and the stats:
\* subscribe(type, late) (a MAX_LISTENERS_EXCEEDED is caught by the
\* handler), or unsubscribe of the handler registered last
HandlerEffect(reg, inv, targets) ==
    LET type == inv.arg.type.v
        last == targets[Len(targets)]
    IN CASE inv.did = "sub" /\ ~MaxListenersReached(reg.hs, type) ->
              [hs |-> [reg.hs EXCEPT ![type] = SetAdd(@, Plain("late"))],
               st |-> [reg.st EXCEPT !.activeSubscriptions = @ + 1,
                                     !.eventTypes = PushType(@, type)]]
         [] inv.did = "unsub" /\ inv.handler # last ->
              [hs |-> UnsubscribeHandlers(reg.hs, type, last),
               st |-> UnsubscribeStats(reg.hs, reg.st, type)]
         [] OTHER -> reg

\* the registry and the stats after the handlers invs[k..] have run
RECURSIVE FanOutEffects(_, _, _, _)
FanOutEffects(reg, invs, targets, k) ==
    IF k > Len(invs) THEN reg
    ELSE FanOutEffects(HandlerEffect(reg, invs[k], targets), invs, targets,
                       k + 1)

\* (variant: emit fans out to the handlers registered when it was called)
HandlersAtCall(hs, em) == em.seen

\* const handlers = this.handlers.get(event.type), read after the chain
HandlersAfterChain(hs, em) == HandlersGet(hs, em.event.type)

\* (variant: emit goes on without awaiting the chain)
UnawaitedChain(unwind) == <<>>

\* `await this.runMiddlewareChain(event)`: what has resumed inside the
\* chain when emit resumes
AwaitedChain(unwind) == unwind

\* the middleware that awaited next() resume, then emit resumes after the
\* chain: the catch for a failed chain, or the handler fan-out
EmitAfterChain(e) ==
    /\ emits[e].pc = "chain"
    /\ LET em == emits[e]
           targets == HandlersAfterChain(handlers, em)
       IN
       IF em.chainErr # <<>>
       THEN /\ emits' = [emits EXCEPT ![e].pc = "done",
                                      ![e].result = EmitError(em.chainErr)]
            /\ stats' = EmitCatch(stats, em.chainErr)
            /\ UNCHANGED <<invocations, handlers>>
       ELSE IF Len(targets) = 0
       THEN \* if (!handlers) return
            /\ emits' = [emits EXCEPT ![e].pc = "done"]
            /\ UNCHANGED <<stats, invocations, handlers>>
       ELSE \E b \in [1..Len(targets) -> env.behaviours] :
            LET invs == FanOut(e, em.event, ArrayFrom(targets, b), b)
                syncThrow == invs[Len(invs)].prom = "thrown"
                r == FirstRejected(invs)
                reg == FanOutEffects([hs |-> handlers, st |-> stats], invs,
                                     targets, 1)
            IN
            /\ invocations' = invocations \o invs
            /\ handlers' = reg.hs
            /\ IF syncThrow
               THEN \* inner catch pushes HANDLER_ERROR, outer catch EMIT_ERROR
                    /\ emits' = [emits EXCEPT
                           ![e].pc = "done",
                           ![e].targets = targets,
                           ![e].result = EmitError(HandlerError(PlainError))]
                    /\ stats' = EmitCatch(
                           [reg.st EXCEPT !.errors =
                                Append(@, HandlerError(PlainError))],
                           HandlerError(PlainError))
               ELSE \* await Promise.all(promises)
                    /\ emits' = [emits EXCEPT
                           ![e].pc = "fanout",
                           ![e].targets = targets,
                           ![e].rejected =
                               IF r = 0 THEN <<>> ELSE invs[r].cause]
                    /\ stats' = reg.st
    /\ mwCalls' = mwCalls \o MwCallsBy(e, AwaitedChain(emits[e].unwind))
    /\ UNCHANGED outside
    /\ UNCHANGED <<env, config, middleware, validators, subscriptions,
                   thrown, nSub, nUnsub, nClear>>

\* (variant: the emit waits for every promise, as with Promise.allSettled)
NoteRejectionIgnored(i, cause) == UNCHANGED emits

\* a rejection reaches Promise.all of the emit that made the invocation:
\* the first one is the one it rejects with
NoteRejection(i, cause) ==
    LET e == invocations[i].emit IN
    IF emits[e].pc = "fanout" /\ emits[e].rejected = <<>>
    THEN emits' = [emits EXCEPT ![e].rejected = cause]
    ELSE UNCHANGED emits

\* the promise returned by the caller's function resolves
HandlerResolve(i) ==
    /\ i \in 1..Len(invocations)
    /\ invocations[i].orig = "running"
    /\ invocations' = [invocations EXCEPT
           ![i].orig = "ok",
           ![i].prom = IF invocations[i].handler.kind = "plain"
                       THEN "resolved" ELSE @]
    /\ UNCHANGED outside
    /\ UNCHANGED <<env, config, handlers, middleware, validators, stats,
                   subscriptions, thrown, nSub, nUnsub, nClear, emits, mwCalls>>

\* the promise returned by the caller's function rejects; a wrapper's
\* `await originalHandler(event)` rethrows, so the wrapper rejects too
HandlerReject(i) ==
    /\ i \in 1..Len(invocations)
    /\ invocations[i].orig = "running"
    /\ invocations' = [invocations EXCEPT
           ![i].orig = "failed",
           ![i].prom = IF @ = "pending" THEN "rejected" ELSE @,
           ![i].cause = IF invocations[i].prom = "pending"
                        THEN PlainError ELSE @]
    /\ IF invocations[i].prom = "pending"
       THEN NoteRejection(i, PlainError)
       ELSE UNCHANGED emits
    /\ UNCHANGED outside
    /\ UNCHANGED <<env, config, handlers, middleware, validators, stats,
                   subscriptions, thrown, nSub, nUnsub, nClear, mwCalls>>

\* a wrapper resumes after its await of the caller's function: the once
\* wrapper unsubscribes itself, the timeout wrapper just returns
WrapperContinue(i) ==
    /\ i \in 1..Len(invocations)
    /\ invocations[i].handler.kind # "plain"
    /\ invocations[i].orig = "ok"
    /\ invocations[i].prom = "pending"
    /\ invocations' = [invocations EXCEPT ![i].prom = "resolved"]
    /\ LET eventType == invocations[i].arg.type.v IN
       IF invocations[i].handler.kind = "once"
       THEN /\ handlers' = UnsubscribeHandlers(handlers, eventType,
                                              invocations[i].handler)
            /\ stats' = UnsubscribeStats(handlers, stats, eventType)
       ELSE UNCHANGED <<handlers, stats>>
    /\ UNCHANGED outside
    /\ UNCHANGED <<env, config, middleware, validators, subscriptions, thrown,
                   nSub, nUnsub, nClear, emits, mwCalls>>

\* the timer of a timeout wrapper fires while the caller's function is
\* still running: the race rejects with HANDLER_TIMEOUT
TimerFire(i) ==
    /\ i \in 1..Len(invocations)
    /\ invocations[i].handler.kind = "timeout"
    /\ invocations[i].orig = "running"
    /\ invocations[i].prom = "pending"
    /\ invocations' = [invocations EXCEPT ![i].prom = "rejected",
                                          ![i].cause = HandlerTimeout]
    /\ NoteRejection(i, HandlerTimeout)
    /\ UNCHANGED outside
    /\ UNCHANGED <<env, config, handlers, middleware, validators, stats,
                   subscriptions, thrown, nSub, nUnsub, nClear, mwCalls>>

InvocationsOf(e) == {i \in 1..Len(invocations) : invocations[i].emit = e}

\* `await Promise.all(promises)` resumes: rejected by the first rejection,
\* or fulfilled when every promise is fulfilled
EmitSettle(e) ==
    /\ emits[e].pc = "fanout"
    /\ IF emits[e].rejected # <<>>
       THEN /\ emits' = [emits EXCEPT ![e].pc = "done",
                              ![e].result = EmitError(emits[e].rejected)]
            /\ stats' = EmitCatch(stats, emits[e].rejected)
       ELSE /\ \A i \in InvocationsOf(e) : invocations[i].prom = "resolved"
            /\ emits' = [emits EXCEPT ![e].pc = "done"]
            /\ stats' = [stats EXCEPT
                   !.totalEventsEmitted = @ + 1,
                   !.eventTypes = PushType(@, emits[e].event.type.v)]
    /\ UNCHANGED outside
    /\ UNCHANGED <<env, config, handlers, middleware, validators,
                   subscriptions, thrown, nSub, nUnsub, nClear, invocations,
                   mwCalls>>

(***************************************************************************)
(* Specifications.                                                         *)
(***************************************************************************)
Options == [once : BOOLEAN, timeout : {0, 1}]

ValidEvents ==
    { IEvent(JsString("t1"), JsNumber("1700"), JsString("test")),
      IEvent(JsString("t2"), JsNumber("1700"), JsString("test")) }

\* Registry runs: every kind of subscribe, repeated unsubscribe and clear.
InitRegistry ==
    /\ env = [maxSubscribes |-> RegMaxSubscribes,
              maxUnsubscribes |-> RegMaxUnsubscribes,
              maxClears |-> RegMaxClears, maxEmits |-> 0,
              maxMiddleware |-> 0, mwKinds |-> {}, validatorKinds |-> {},
              events |-> {}, behaviours |-> {}, options |-> Options]
    /\ \E ml \in {1, 2} :
          Constructor([enableValidation |-> TRUE, maxListeners |-> ml,
                       defaultMiddleware |-> <<>>])
    /\ NoCallsYet

\* nothing in a registry run tells the event types apart: they are named in
\* the order of their first use
KnownTypes == {subscriptions[i].eventType : i \in 1..Len(subscriptions)}
UsableTypes == IF KnownTypes = {} THEN {"t1"} ELSE Types

NextRegistry ==
    \/ \E t \in UsableTypes, h \in UsableFns, o \in env.options :
          Subscribe(t, h, o)
    \/ \E s \in 1..Len(subscriptions) : Unsubscribe(s)
    \/ Clear

SpecRegistry == InitRegistry /\ [][NextRegistry]_vars

\* Validation runs: well-formed and malformed events, with and without the
\* built-in validation and a middleware, one subscriber.
InitValidation ==
    /\ env = [maxSubscribes |-> ValMaxSubscribes, maxUnsubscribes |-> 0,
              maxClears |-> 0, maxEmits |-> ValMaxEmits,
              maxMiddleware |-> 0, mwKinds |-> {}, validatorKinds |-> {},
              events |-> EventPool,
              behaviours |-> {"ok", "throw", "pending"},
              options |-> {[once |-> FALSE, timeout |-> 0]}]
    /\ \E ev \in BOOLEAN, dm \in {<<>>, <<"pass">>} :
          Constructor([enableValidation |-> ev, maxListeners |-> 2,
                       defaultMiddleware |-> dm])
    /\ NoCallsYet

NextValidation ==
    \/ \E t \in Types, h \in UsableFns, o \in env.options : Subscribe(t, h, o)
    \/ \E ev \in env.events : EmitStart(ev)
    \/ \E e \in EmitIds : EmitValidate(e)
    \/ \E e \in EmitIds : EmitAfterChain(e)
    \/ \E i \in 1..Len(invocations) : HandlerResolve(i)
    \/ \E i \in 1..Len(invocations) : HandlerReject(i)
    \/ \E e \in EmitIds : EmitSettle(e)

SpecValidation == InitValidation /\ [][NextValidation]_vars

\* Fan-out runs: valid events, handlers that return, throw or suspend, every
\* kind of subscription, emits that overlap.
InitFanOut ==
    /\ env = [maxSubscribes |-> FanMaxSubscribes,
              maxUnsubscribes |-> FanMaxUnsubscribes,
              maxClears |-> 0, maxEmits |-> FanMaxEmits,
              maxMiddleware |-> 0, mwKinds |-> {}, validatorKinds |-> {},
              events |-> ValidEvents,
              behaviours |-> {"ok", "throw", "pending"},
              options |-> {[once |-> FALSE, timeout |-> 0],
                           [once |-> TRUE, timeout |-> 0]}]
    /\ Constructor([enableValidation |-> FALSE, maxListeners |-> 2,
                    defaultMiddleware |-> <<>>])
    /\ NoCallsYet

NextFanOut ==
    \/ \E t \in Types, h \in UsableFns, o \in env.options : Subscribe(t, h, o)
    \/ \E s \in 1..Len(subscriptions) : Unsubscribe(s)
    \/ \E ev \in env.events : EmitStart(ev)
    \/ \E e \in EmitIds : EmitAfterChain(e)
    \/ \E i \in 1..Len(invocations) : HandlerResolve(i)
    \/ \E i \in 1..Len(invocations) : HandlerReject(i)
    \/ \E i \in 1..Len(invocations) : WrapperContinue(i)
    \/ \E e \in EmitIds : EmitSettle(e)

SpecFanOut == InitFanOut /\ [][NextFanOut]_vars

\* Option runs: one subscription with every combination of once and
\* timeout, its unsubscribe(), emits whose handlers return, throw, suspend
\* or run into the timer.
InitOptions ==
    /\ env = [maxSubscribes |-> OptMaxSubscribes,
              maxUnsubscribes |-> OptMaxUnsubscribes,
              maxClears |-> 0, maxEmits |-> OptMaxEmits,
              maxMiddleware |-> 0, mwKinds |-> {}, validatorKinds |-> {},
              events |-> ValidEvents,
              behaviours |-> {"ok", "throw", "pending"},
              options |-> Options]
    /\ Constructor([enableValidation |-> FALSE, maxListeners |-> 2,
                    defaultMiddleware |-> <<>>])
    /\ NoCallsYet

NextOptions ==
    \/ \E t \in Types, h \in UsableFns, o \in env.options : Subscribe(t, h, o)
    \/ \E s \in 1..Len(subscriptions) : Unsubscribe(s)
    \/ \E ev \in env.events : EmitStart(ev)
    \/ \E e \in EmitIds : EmitAfterChain(e)
    \/ \E i \in 1..Len(invocations) : HandlerResolve(i)
    \/ \E i \in 1..Len(invocations) : HandlerReject(i)
    \/ \E i \in 1..Len(invocations) : WrapperContinue(i)
    \/ \E i \in 1..Len(invocations) : TimerFire(i)
    \/ \E e \in EmitIds : EmitSettle(e)

SpecOptions == InitOptions /\ [][NextOptions]_vars

\* Middleware runs: chains built by use() from every kind of middleware,
\* subscribers that return or throw, valid events, validation off.
InitMiddleware ==
    /\ env = [maxSubscribes |-> MwMaxSubscribes, maxUnsubscribes |-> 0,
              maxClears |-> 0, maxEmits |-> MwMaxEmits,
              maxMiddleware |-> MwMaxUses, mwKinds |-> MwKinds,
              validatorKinds |-> {},
              events |-> ValidEvents,
              behaviours |-> {"ok", "throw"},
              options |-> {[once |-> FALSE, timeout |-> 0]}]
    /\ Constructor([enableValidation |-> FALSE, maxListeners |-> 2,
                    defaultMiddleware |-> <<>>])
    /\ NoCallsYet

\* use() is called while no emit is in flight: an emit reads the chain in
\* its descent only, so a later use() cannot change what it does
NextMiddleware ==
    \/ \E m \in env.mwKinds : StartedEmits = DoneEmits /\ Use(m)
    \/ \E t \in Types, h \in UsableFns, o \in env.options : Subscribe(t, h, o)
    \/ \E ev \in env.events : EmitStart(ev)
    \/ \E e \in EmitIds : EmitAfterChain(e)
    \/ \E e \in EmitIds : EmitSettle(e)

SpecMiddleware == InitMiddleware /\ [][NextMiddleware]_vars

\* Error runs: one event type, events that pass or fail the built-in
\* validation, a custom validator, a middleware that passes or fails, a
\* handler that returns, throws or rejects, and clear().
ErrTypes == {"t1"}

ErrEvents ==
    { IEvent(JsString("t1"), JsNumber("1700"), JsString("test")),
      IEvent(JsString("t1"), JsNumber("1700"), JsUndefined) }

InitErrors ==
    /\ env = [maxSubscribes |-> ErrMaxSubscribes, maxUnsubscribes |-> 0,
              maxClears |-> ErrMaxClears, maxEmits |-> ErrMaxEmits,
              maxMiddleware |-> ErrMaxUses,
              mwKinds |-> {"pass", "throw", "limit"},
              validatorKinds |-> {"accept", "reject"},
              events |-> ErrEvents,
              behaviours |-> {"ok", "throw", "pending"},
              options |-> {[once |-> FALSE, timeout |-> 0]}]
    /\ Constructor([enableValidation |-> TRUE, maxListeners |-> 2,
                    defaultMiddleware |-> <<>>])
    /\ NoCallsYet

\* use() and addValidator() are called before the first emit (the bus is
\* set up, then used), addValidator() once per type; subscribe(), clear()
\* and emits come at any time
NextErrors ==
    \/ \E m \in env.mwKinds : StartedEmits = {} /\ Use(m)
    \/ \E t \in ErrTypes, v \in env.validatorKinds :
          /\ StartedEmits = {}
          /\ validators[t] = "none"
          /\ AddValidator(t, v)
    \/ \E t \in ErrTypes, h \in UsableFns, o \in env.options :
          Subscribe(t, h, o)
    \/ Clear
    \/ \E ev \in env.events : EmitStart(ev)
    \/ \E e \in EmitIds : EmitValidate(e)
    \/ \E e \in EmitIds : EmitAfterChain(e)
    \/ \E i \in 1..Len(invocations) : HandlerResolve(i)
    \/ \E i \in 1..Len(invocations) : HandlerReject(i)
    \/ \E e \in EmitIds : EmitSettle(e)

SpecErrors == InitErrors /\ [][NextErrors]_vars

\* Statistics runs: a caller takes the object returned by getStats() and
\* writes to it, while the bus is subscribed to, emits and is cleared.
InitStats ==
    /\ env = [maxSubscribes |-> StMaxSubscribes, maxUnsubscribes |-> 0,
              maxClears |-> StMaxClears, maxEmits |-> StMaxEmits,
              maxMiddleware |-> 0, mwKinds |-> {}, validatorKinds |-> {},
              events |-> ValidEvents,
              behaviours |-> {"ok", "throw"},
              options |-> {[once |-> FALSE, timeout |-> 0]}]
    /\ Constructor([enableValidation |-> FALSE, maxListeners |-> 2,
                    defaultMiddleware |-> <<>>])
    /\ NoCallsYet

NextStats ==
    \/ \E t \in Types, h \in UsableFns, o \in env.options : Subscribe(t, h, o)
    \/ Clear
    \/ GetStats
    \/ \E f \in {"totalEventsEmitted", "eventTypes", "errors"} :
          MutateSnapshot(f)
    \/ \E ev \in env.events : EmitStart(ev)
    \/ \E e \in EmitIds : EmitAfterChain(e)
    \/ \E e \in EmitIds : EmitSettle(e)

SpecStats == InitStats /\ [][NextStats]_vars

\* Singleton runs: getInstance is called again and again with different
\* configurations, before and after the bus is used.
Configs ==
    [enableValidation : BOOLEAN, maxListeners : {1, 2},
     defaultMiddleware : {<<>>, <<"pass">>}]

\* before the first getInstance call there is no bus object
InitSingleton ==
    /\ env = [maxSubscribes |-> SglMaxSubscribes,
              maxUnsubscribes |-> SglMaxUnsubscribes,
              maxClears |-> 0, maxEmits |-> 0,
              maxMiddleware |-> 0, mwKinds |-> {}, validatorKinds |-> {},
              events |-> {}, behaviours |-> {},
              options |-> {[once |-> FALSE, timeout |-> 0]}]
    /\ instance = 0
    /\ config = [enableValidation |-> FALSE, maxListeners |-> 0,
                 defaultMiddleware |-> <<>>]
    /\ handlers = [t \in Types |-> <<>>]
    /\ middleware = <<>>
    /\ validators = [t \in Types |-> "none"]
    /\ stats = [totalEventsEmitted |-> 0, activeSubscriptions |-> 0,
                middlewareCount |-> 0, eventTypes |-> <<>>, errors |-> <<>>]
    /\ NoCallsYet

NextSingleton ==
    \/ \E cfg \in Configs :
          Len(caller.instances) < SglMaxGetInstances /\ GetInstance(cfg)
    \/ \E t \in UsableTypes, h \in UsableFns, o \in env.options :
          InstanceExists(instance) /\ Subscribe(t, h, o)
    \/ \E s \in 1..Len(subscriptions) :
          InstanceExists(instance) /\ Unsubscribe(s)

SpecSingleton == InitSingleton /\ [][NextSingleton]_vars

\* Factory runs: middleware made by createRateLimitMiddleware,
\* createBatchMiddleware and createTransformMiddleware are installed, then
\* events are emitted to a handler that succeeds while the clock moves on
\* and the batch timer fires.
FacSizes == {1, 2}

FactoryArgs(m) == IF m = "transform" THEN {0} ELSE FacSizes

FacEvents == {IEvent(JsString("t1"), JsNumber("1700"), JsString("test"))}

InitFactory ==
    /\ env = [maxSubscribes |-> FacMaxSubscribes, maxUnsubscribes |-> 0,
              maxClears |-> 0, maxEmits |-> FacMaxEmits,
              maxMiddleware |-> FacMaxUses,
              mwKinds |-> FactoryKinds, validatorKinds |-> {},
              events |-> FacEvents,
              behaviours |-> {"ok"},
              options |-> {[once |-> FALSE, timeout |-> 0]}]
    /\ Constructor([enableValidation |-> FALSE, maxListeners |-> 2,
                    defaultMiddleware |-> <<>>])
    /\ NoCallsYet

NextFactory ==
    \/ \E m \in env.mwKinds : \E n \in FactoryArgs(m) :
          StartedEmits = {} /\ UseFactory(m, n)
    \/ \E h \in UsableFns, o \in env.options :
          StartedEmits = {} /\ Subscribe("t1", h, o)
    \/ \E t \in Instants : AdvanceClock(t)
    \/ BatchTimerFire
    \/ \E ev \in env.events : EmitStart(ev)
    \/ \E e \in EmitIds : EmitAfterChain(e)
    \/ \E e \in EmitIds : EmitSettle(e)

SpecFactory == InitFactory /\ [][NextFactory]_vars

\* Timeout runs: handlers subscribed with and without the timeout option
\* that return, throw, resolve or reject late, or never complete, while
\* the timers of the timeout wrappers fire.  The handlers are subscribed
\* before the first emit.
InitTimeout ==
    /\ env = [maxSubscribes |-> TmoMaxSubscribes, maxUnsubscribes |-> 0,
              maxClears |-> 0, maxEmits |-> TmoMaxEmits,
              maxMiddleware |-> 0, mwKinds |-> {}, validatorKinds |-> {},
              events |-> FacEvents,
              behaviours |-> {"ok", "throw", "pending"},
              options |-> {[once |-> FALSE, timeout |-> 0],
                          [once |-> FALSE, timeout |-> 1]}]
    /\ Constructor([enableValidation |-> FALSE, maxListeners |-> 2,
                    defaultMiddleware |-> <<>>])
    /\ NoCallsYet

NextTimeout ==
    \/ \E h \in UsableFns, o \in env.options :
          StartedEmits = {} /\ Subscribe("t1", h, o)
    \/ \E ev \in env.events : EmitStart(ev)
    \/ \E e \in EmitIds : EmitAfterChain(e)
    \/ \E i \in 1..Len(invocations) : HandlerResolve(i)
    \/ \E i \in 1..Len(invocations) : HandlerReject(i)
    \/ \E i \in 1..Len(invocations) : WrapperContinue(i)
    \/ \E i \in 1..Len(invocations) : TimerFire(i)
    \/ \E e \in EmitIds : EmitSettle(e)

SpecTimeout == InitTimeout /\ [][NextTimeout]_vars

\* Validator runs: validators are added, replaced and removed for both
\* event types while valid events are emitted one after the other (each
\* emit is awaited), with the built-in validation on or off.
InitValidators ==
    /\ env = [maxSubscribes |-> VdMaxSubscribes, maxUnsubscribes |-> 0,
              maxClears |-> 0, maxEmits |-> VdMaxEmits,
              maxMiddleware |-> 0, mwKinds |-> {},
              validatorKinds |-> {"accept", "reject"},
              events |-> ValidEvents,
              behaviours |-> {"ok"},
              options |-> {[once |-> FALSE, timeout |-> 0]}]
    /\ \E ev \in BOOLEAN :
          Constructor([enableValidation |-> ev, maxListeners |-> 2,
                       defaultMiddleware |-> <<"pass">>])
    /\ NoCallsYet

NextValidators ==
    \/ \E t \in Types, v \in env.validatorKinds :
          /\ Len(caller.validatorCalls) < VdMaxValidatorCalls
          /\ AddValidator(t, v)
    \/ \E t \in Types :
          /\ Len(caller.validatorCalls) < VdMaxValidatorCalls
          /\ RemoveValidator(t)
    \/ \E t \in Types, h \in UsableFns, o \in env.options :
          StartedEmits = {} /\ Subscribe(t, h, o)
    \/ \E ev \in env.events : StartedEmits = DoneEmits /\ EmitStart(ev)
    \/ \E e \in EmitIds : EmitValidate(e)
    \/ \E e \in EmitIds : EmitAfterChain(e)
    \/ \E e \in EmitIds : EmitSettle(e)

SpecValidators == InitValidators /\ [][NextValidators]_vars

\* Middleware-count runs: the bus is constructed with or without default
\* middleware; use (also of a function already installed),
\* removeMiddleware (also of a function not installed) and clear are
\* called in any order, while events are emitted one after the other.
InitCount ==
    /\ env = [maxSubscribes |-> 0, maxUnsubscribes |-> 0,
              maxClears |-> CntMaxClears, maxEmits |-> CntMaxEmits,
              maxMiddleware |-> CntMaxMiddleware,
              mwKinds |-> {"pass", "wrap"}, validatorKinds |-> {},
              events |-> FacEvents,
              behaviours |-> {"ok"},
              options |-> {[once |-> FALSE, timeout |-> 0]}]
    /\ \E dm \in {<<>>, <<"pass">>, <<"pass", "pass">>} :
          Constructor([enableValidation |-> FALSE, maxListeners |-> 2,
                       defaultMiddleware |-> dm])
    /\ NoCallsYet

NextCount ==
    \/ \E m \in env.mwKinds : Use(m)
    \/ \E m \in env.mwKinds : RemoveMiddleware(m)
    \/ Clear
    \/ \E ev \in env.events : StartedEmits = DoneEmits /\ EmitStart(ev)
    \/ \E e \in EmitIds : EmitAfterChain(e)

SpecCount == InitCount /\ [][NextCount]_vars

\* Batch runs: a batch middleware is installed and events are emitted
\* while its timer fires; a timer that is armed fires eventually.
InitBatch ==
    /\ env = [maxSubscribes |-> 0, maxUnsubscribes |-> 0,
              maxClears |-> 0, maxEmits |-> BatMaxEmits,
              maxMiddleware |-> 1,
              mwKinds |-> {"batch"}, validatorKinds |-> {},
              events |-> FacEvents,
              behaviours |-> {"ok"},
              options |-> {[once |-> FALSE, timeout |-> 0]}]
    /\ Constructor([enableValidation |-> FALSE, maxListeners |-> 2,
                    defaultMiddleware |-> <<>>])
    /\ NoCallsYet

NextBatch ==
    \/ \E n \in 1..BatMaxSize : StartedEmits = {} /\ UseFactory("batch", n)
    \/ BatchTimerFire
    \/ \E ev \in env.events : EmitStart(ev)
    \/ \E e \in EmitIds : EmitAfterChain(e)

SpecBatch == InitBatch /\ [][NextBatch]_vars /\ WF_vars(BatchTimerFire)

\* Rate-limit runs: a rate-limit middleware is installed and events are
\* emitted one after the other while the clock moves on.
InitRateLimit ==
    /\ env = [maxSubscribes |-> 0, maxUnsubscribes |-> 0,
              maxClears |-> 0, maxEmits |-> RlMaxEmits,
              maxMiddleware |-> 1,
              mwKinds |-> {"ratelimit"}, validatorKinds |-> {},
              events |-> FacEvents,
              behaviours |-> {"ok"},
              options |-> {[once |-> FALSE, timeout |-> 0]}]
    /\ Constructor([enableValidation |-> FALSE, maxListeners |-> 2,
                    defaultMiddleware |-> <<>>])
    /\ NoCallsYet

NextRateLimit ==
    \/ \E n \in FacSizes : StartedEmits = {} /\ UseFactory("ratelimit", n)
    \/ \E t \in Instants : AdvanceClock(t)
    \/ \E ev \in env.events : StartedEmits = DoneEmits /\ EmitStart(ev)
    \/ \E e \in EmitIds : EmitAfterChain(e)

SpecRateLimit == InitRateLimit /\ [][NextRateLimit]_vars

\* Runs that change the chain under an emit: the bus is constructed with
\* default middleware of which one suspends before it calls next; while
\* an emit is suspended there, middleware are removed and functions that
\* were not installed when the emit was called are installed.
InitSuspended ==
    /\ env = [maxSubscribes |-> 0, maxUnsubscribes |-> 0,
              maxClears |-> 0, maxEmits |-> SusMaxEmits,
              maxMiddleware |-> SusMaxMiddleware,
              mwKinds |-> {"pass", "wrap", "defer"}, validatorKinds |-> {},
              events |-> FacEvents,
              behaviours |-> {"ok"},
              options |-> {[once |-> FALSE, timeout |-> 0]}]
    /\ \E dm \in {<<"defer", "pass">>, <<"pass", "defer">>,
                   <<"pass", "defer", "wrap">>, <<"defer", "pass", "wrap">>} :
          Constructor([enableValidation |-> FALSE, maxListeners |-> 2,
                       defaultMiddleware |-> dm])
    /\ NoCallsYet

SuspendedEmits == {e \in EmitIds : emits[e].pc = "suspended"}

NextSuspended ==
    \/ \E m \in env.mwKinds :
          /\ SuspendedEmits # {}
          /\ m \notin Range(middleware)
          /\ \A e \in SuspendedEmits : m \notin Range(emits[e].chain)
          /\ Use(m)
    \/ \E m \in env.mwKinds : SuspendedEmits # {} /\ RemoveMiddleware(m)
    \/ \E ev \in env.events : StartedEmits = DoneEmits /\ EmitStart(ev)
    \/ \E e \in EmitIds : ChainResume(e)
    \/ \E e \in EmitIds : EmitAfterChain(e)

SpecSuspended == InitSuspended /\ [][NextSuspended]_vars

\* Re-entrant runs: handlers, subscribed with or without once before the
\* first emit, subscribe another function or unsubscribe a handler while
\* the fan-out that invoked them is running; once wrappers remove
\* themselves when they resume.  Emits are made one after the other.
InitReentrant ==
    /\ env = [maxSubscribes |-> ReMaxSubscribes, maxUnsubscribes |-> 0,
              maxClears |-> 0, maxEmits |-> ReMaxEmits,
              maxMiddleware |-> 0, mwKinds |-> {}, validatorKinds |-> {},
              events |-> FacEvents,
              behaviours |-> {"ok", "sub", "unsub"},
              options |-> {[once |-> FALSE, timeout |-> 0],
                           [once |-> TRUE, timeout |-> 0]}]
    /\ Constructor([enableValidation |-> FALSE, maxListeners |-> 3,
                    defaultMiddleware |-> <<>>])
    /\ NoCallsYet

NextReentrant ==
    \/ \E h \in UsableFns, o \in env.options :
          StartedEmits = {} /\ Subscribe("t1", h, o)
    \/ \E ev \in env.events : StartedEmits = DoneEmits /\ EmitStart(ev)
    \/ \E e \in EmitIds : EmitAfterChain(e)
    \/ \E i \in 1..Len(invocations) : WrapperContinue(i)
    \/ \E e \in EmitIds : EmitSettle(e)

SpecReentrant == InitReentrant /\ [][NextReentrant]_vars

\* Runs that change the registry under an emit: with validation on and a
\* middleware installed, handlers are subscribed and unsubscribed before
\* an emit, while it waits for the import, and while it awaits the chain.
InitLate ==
    /\ env = [maxSubscribes |-> LateMaxSubscribes,
              maxUnsubscribes |-> LateMaxUnsubscribes,
              maxClears |-> 0, maxEmits |-> LateMaxEmits,
              maxMiddleware |-> 0, mwKinds |-> {}, validatorKinds |-> {},
              events |-> FacEvents,
              behaviours |-> {"ok"},
              options |-> {[once |-> FALSE, timeout |-> 0]}]
    /\ Constructor([enableValidation |-> TRUE, maxListeners |-> 2,
                    defaultMiddleware |-> <<"pass">>])
    /\ NoCallsYet

NextLate ==
    \/ \E h \in UsableFns, o \in env.options : Subscribe("t1", h, o)
    \/ \E s \in 1..Len(subscriptions) : Unsubscribe(s)
    \/ \E ev \in env.events : StartedEmits = DoneEmits /\ EmitStart(ev)
    \/ \E e \in EmitIds : EmitValidate(e)
    \/ \E e \in EmitIds : EmitAfterChain(e)
    \/ \E e \in EmitIds : EmitSettle(e)

SpecLate == InitLate /\ [][NextLate]_vars

\* Termination runs: handlers subscribed with and without the timeout
\* option, before the emit, that return, throw, complete late or never
\* complete; a middleware that passes on, throws, or suspends before
\* next() and may never resume.  What the event loop runs once it is
\* ready does run (the continuations of emit and of the wrappers, and the
\* timers); nothing makes a caller's function or a middleware complete.
InitTermination ==
    /\ env = [maxSubscribes |-> TermMaxSubscribes, maxUnsubscribes |-> 0,
              maxClears |-> 0, maxEmits |-> TermMaxEmits,
              maxMiddleware |-> 0, mwKinds |-> {}, validatorKinds |-> {},
              events |-> FacEvents,
              behaviours |-> {"ok", "throw", "pending"},
              options |-> {[once |-> FALSE, timeout |-> 0],
                           [once |-> FALSE, timeout |-> 1]}]
    /\ \E dm \in {<<"pass">>, <<"throw">>, <<"defer">>} :
          Constructor([enableValidation |-> TRUE, maxListeners |-> 2,
                       defaultMiddleware |-> dm])
    /\ NoCallsYet

NextTermination ==
    \/ \E h \in UsableFns, o \in env.options :
          StartedEmits = {} /\ Subscribe("t1", h, o)
    \/ \E ev \in env.events : StartedEmits = DoneEmits /\ EmitStart(ev)
    \/ \E e \in EmitIds : EmitValidate(e)
    \/ \E e \in EmitIds : ChainResume(e)
    \/ \E e \in EmitIds : EmitAfterChain(e)
    \/ \E i \in 1..Len(invocations) : HandlerResolve(i)
    \/ \E i \in 1..Len(invocations) : HandlerReject(i)
    \/ \E i \in 1..Len(invocations) : WrapperContinue(i)
    \/ \E i \in 1..Len(invocations) : TimerFire(i)
    \/ \E e \in EmitIds : EmitSettle(e)

EventLoopRuns ==
    /\ WF_vars(\E e \in EmitIds : EmitValidate(e))
    /\ WF_vars(\E e \in EmitIds : EmitAfterChain(e))
    /\ WF_vars(\E e \in EmitIds : EmitSettle(e))
    /\ WF_vars(\E i \in 1..Len(invocations) : WrapperContinue(i))
    /\ WF_vars(\E i \in 1..Len(invocations) : TimerFire(i))

SpecTermination ==
    InitTermination /\ [][NextTermination]_vars /\ EventLoopRuns

(***************************************************************************)
(* Properties of the handler registry.                                     *)
(***************************************************************************)
RECURSIVE SumSizes(_, _)
SumSizes(hs, S) ==
    IF S = {} THEN 0
    ELSE LET t == CHOOSE x \in S : TRUE
         IN Len(hs[t]) + SumSizes(hs, S \ {t})

\* the number of handlers held in the registry, over all event types
RegistrySize(hs) == SumSizes(hs, Types)

\* C1: in every reachable state stats.activeSubscriptions equals the sum,
\* over all event types, of the number of handlers held in the registry.
C1_ActiveSubscriptionsIsRegistrySize ==
    stats.activeSubscriptions = RegistrySize(handlers)

\* C2: after any sequence of subscribe (with any options) and unsubscribe
\* calls no event type holds more than maxListeners handlers.
C2_AtMostMaxListeners ==
    \A t \in Types : Len(handlers[t]) <= config.maxListeners

\* C3: a subscribe call succeeds exactly when its event type holds fewer than
\* maxListeners handlers, a successful call with a handler that is not yet
\* registered and default options adds exactly that handler, and a call for
\* a type that holds maxListeners handlers fails with MAX_LISTENERS_EXCEEDED
\* and changes neither the registry nor any statistic.  So the first
\* maxListeners calls with distinct handlers succeed and the next one fails.
SubscribeReturned ==
    /\ nSub' = nSub + 1
    /\ Len(subscriptions') = Len(subscriptions) + 1

SubscribeThrew ==
    /\ nSub' = nSub + 1
    /\ subscriptions' = subscriptions

C3_Step ==
    /\ nSub' = nSub + 1 => SubscribeReturned \/ SubscribeThrew
    /\ SubscribeReturned =>
          LET s == subscriptions'[Len(subscriptions')]
              before == handlers[s.eventType]
          IN /\ thrown' = NoError
             /\ Len(before) < config.maxListeners
             /\ (s.handler.kind = "plain" /\ s.handler \notin Range(before))
                    => handlers' = [handlers EXCEPT ![s.eventType] =
                                        Append(before, s.handler)]
    /\ SubscribeThrew =>
          /\ thrown'.code = "MAX_LISTENERS_EXCEEDED"
          /\ thrown'.eventType \in Types
          /\ Len(handlers[thrown'.eventType]) >= config.maxListeners
          /\ handlers' = handlers
          /\ stats' = stats

Malformed(event) ==
    \/ event.type.t = "undefined"
    \/ event.type = JsString("")
    \/ event.timestamp.t = "undefined"
    \/ event.source.t = "undefined"
    \/ event.source.t # "string"

MwCallsOf(e) == {i \in 1..Len(mwCalls) : mwCalls[i].emit = e}

WellFormed(event) ==
    /\ event.type.t = "string" /\ event.type.v # ""
    /\ \/ event.timestamp = JsDate
       \/ event.timestamp.t = "number" /\ event.timestamp.v # "0"
    /\ event.source.t = "string"

\* C5: with validation enabled, no middleware and one handler H subscribed
\* to T, the emit of a well-formed event of type T (H not failing) succeeds,
\* has invoked H exactly once with that event, and leaves
\* totalEventsEmitted = 1.
C5_ScenarioA ==
    \A e \in StartedEmits :
        ( /\ config.enableValidation
          /\ middleware = <<>>
          /\ Cardinality(StartedEmits) = 1
          /\ emits[e].pc = "done"
          /\ WellFormed(emits[e].event)
          /\ \E h \in Range(FnOrder) : emits[e].seen = <<Plain(h)>>
          /\ \A i \in InvocationsOf(e) : invocations[i].orig # "failed" )
        =>
        /\ emits[e].result = <<>>
        /\ Len(invocations) = 1
        /\ invocations[1].emit = e
        /\ invocations[1].handler = emits[e].seen[1]
        /\ invocations[1].arg = emits[e].event
        /\ stats.totalEventsEmitted = 1

(***************************************************************************)
(* Properties of the handler fan-out.                                      *)
(***************************************************************************)
\* emits whose fan-out has been made
FannedOut == {e \in EmitIds : emits[e].targets # <<>>}

\* how many times emit e has invoked registry entry w
TimesInvoked(e, w) ==
    Cardinality({i \in InvocationsOf(e) : invocations[i].handler = w})

\* C6: with N handlers subscribed without once or timeout to one type, a
\* single emit of that type invokes each of them exactly once, also when
\* one of them throws or rejects.
C6_FanOutComplete ==
    \A e \in FannedOut :
        (\A k \in 1..Len(emits[e].targets) :
             emits[e].targets[k].kind = "plain")
        => \A k \in 1..Len(emits[e].targets) :
               TimesInvoked(e, emits[e].targets[k]) = 1

\* C7: an emit does not complete while a handler it invoked is still
\* running, also when another of its handlers has failed.
C7_EmitJoinsHandlers ==
    \A e \in DoneEmits :
        \A i \in InvocationsOf(e) : invocations[i].orig # "running"

\* C8: a once handler is invoked by the first emit of its type (here: by an
\* emit that finds only once handlers registered) and by no emit issued
\* after an emit that invoked it has completed; if it was the only handler
\* ever subscribed, activeSubscriptions is 0 once that emit has completed.
C8_OnceSemantics ==
    /\ \A e \in FannedOut :
          (\A k \in 1..Len(emits[e].targets) :
               emits[e].targets[k].kind = "once")
          => \A k \in 1..Len(emits[e].targets) :
                 TimesInvoked(e, emits[e].targets[k]) = 1
    /\ \A i, j \in 1..Len(invocations) :
          ( /\ invocations[i].handler.kind = "once"
            /\ invocations[j].handler = invocations[i].handler )
          => invocations[i].emit \notin emits[invocations[j].emit].after
    /\ \A e \in DoneEmits :
          ( /\ Len(emits[e].targets) = 1
            /\ emits[e].targets[1].kind = "once"
            /\ nSub = 1 )
          => stats.activeSubscriptions = 0

\* C9: a once handler whose invocation has failed is no longer in the
\* registry when the emit that invoked it has completed.
C9_OnceRemovedOnFailure ==
    \A i \in 1..Len(invocations) :
        ( /\ invocations[i].handler.kind = "once"
          /\ invocations[i].orig = "failed"
          /\ emits[invocations[i].emit].pc = "done" )
        => invocations[i].handler
               \notin Range(HandlersGet(handlers, invocations[i].arg.type))

\* C10: a once handler none of whose invocations has failed is invoked at
\* most once, also by emits that are in flight at the same time.
C10_OnceAtMostOnce ==
    \A i, j \in 1..Len(invocations) :
        ( /\ invocations[i].handler.kind = "once"
          /\ invocations[j].handler = invocations[i].handler
          /\ invocations[i].orig # "failed"
          /\ invocations[j].orig # "failed" )
        => i = j

(***************************************************************************)
(* Properties of the subscription options.                                 *)
(***************************************************************************)
\* the registry entries that are wrappers created by subscribe call n
EntriesOf(n) ==
    UNION {{x \in Range(handlers[t]) : x.id = n} : t \in Types}

\* the invocations by emit e of the function wrapped by subscribe call n
InvokedFor(e, n) ==
    {i \in InvocationsOf(e) : invocations[i].handler.id = n}

\* C11: a subscribe call with once and timeout (with any wrapping option)
\* registers exactly one handler entry, and the first emit of its type
\* invokes the caller's handler exactly once.
C11_OnceTimeoutOneEntry ==
    \A s \in 1..Len(subscriptions) :
        LET n == subscriptions[s].handler.id IN
        n > 0 =>
            /\ (nUnsub = 0 /\ invocations = <<>>)
                   => Cardinality(EntriesOf(n)) = 1
            /\ \A e \in FannedOut :
                   ( /\ emits[e].after = {}
                     /\ nUnsub = 0
                     /\ subscriptions[s].handler \in Range(emits[e].targets) )
                   => Cardinality(InvokedFor(e, n)) = 1

\* C12: once the unsubscribe() of the only subscription has been called
\* before any handler was invoked, the registry holds no entry created by
\* that subscribe call, and no emit invokes the caller's handler, whatever
\* the once and timeout options were.
C12_Step ==
    ( /\ nSub = 1
      /\ Len(subscriptions) = 1
      /\ nUnsub >= 1
      /\ invocations = <<>> )
    => /\ \A t \in Types : handlers[t] = <<>>
       /\ invocations' = <<>>

C12_UnsubscribeRemovesWrappers == [][C12_Step]_vars

\* C13: in every reachable state, calling unsubscribe twice for any
\* subscription (of a type that holds only unwrapped handlers) leaves the
\* registry and activeSubscriptions after the second call as they were
\* after the first call, also when other handlers remain subscribed to the
\* same event type.
C13_UnsubscribeIdempotent ==
    \A s \in 1..Len(subscriptions) :
        LET t == subscriptions[s].eventType
            h == subscriptions[s].handler
            hs1 == UnsubscribeHandlers(handlers, t, h)
            st1 == UnsubscribeStats(handlers, stats, t)
            hs2 == UnsubscribeHandlers(hs1, t, h)
            st2 == UnsubscribeStats(hs1, st1, t)
        IN (\A x \in Range(handlers[t]) : x.kind = "plain")
           => /\ hs2 = hs1
              /\ st2.activeSubscriptions = st1.activeSubscriptions

(***************************************************************************)
(* Properties of the middleware chain.                                     *)
(***************************************************************************)
\* the positions in mwCalls of the steps of emit e at chain index k
MwSteps(e, k, phase) ==
    {i \in MwCallsOf(e) : mwCalls[i].index = k /\ mwCalls[i].phase = phase}

\* the chain indexes at which emit e has entered a middleware
Entered(e) == {mwCalls[i].index : i \in MwCallsOf(e)}

\* emit e has entered a middleware of one of the given kinds
EnteredKind(e, kinds) == \E i \in MwCallsOf(e) : mwCalls[i].mw \in kinds

\* C14: if some middleware of an emit returns without calling next, that
\* emit invokes no handler and returns without an error.
C14_DroppedEventSkipsHandlers ==
    \A e \in StartedEmits :
        EnteredKind(e, {"drop"}) =>
            /\ InvocationsOf(e) = {}
            /\ emits[e].result = <<>>

\* C15: within one emit the middleware are entered in installation order,
\* each one once, and those that call next are exited in reverse order:
\* M1 is entered before M2, and M2 is exited before M1.
C15_OnionOrder ==
    \A e \in StartedEmits :
        /\ \A k \in Entered(e) :
              /\ Cardinality(MwSteps(e, k, "enter")) = 1
              /\ Cardinality(MwSteps(e, k, "exit")) <= 1
              /\ \A i \in MwSteps(e, k, "enter"), j \in MwSteps(e, k, "exit") :
                    i < j
        /\ \A k1, k2 \in Entered(e) :
              k1 < k2 =>
                /\ \A i \in MwSteps(e, k1, "enter"),
                      j \in MwSteps(e, k2, "enter") : i < j
                /\ \A i \in MwSteps(e, k1, "exit"),
                      j \in MwSteps(e, k2, "exit") : j < i
        /\ emits[e].pc = "done" =>
              \A k \in Entered(e) : MwSteps(e, k, "exit") # {}

\* C15 witness: two middleware that call next were installed by use, and
\* an emit has run through both and completed.
C15_Witness ==
    \E e \in DoneEmits :
        /\ Len(middleware) = 2
        /\ \A k \in 1..2 : middleware[k] \in {"pass", "wrap"}
        /\ Entered(e) = {1, 2}
        /\ \A k \in 1..2 : MwSteps(e, k, "exit") # {}

\* C16: when an emit has invoked a handler, every middleware it entered has
\* returned.
C16_ChainBeforeHandlers ==
    \A e \in StartedEmits :
        InvocationsOf(e) # {} =>
            \A k \in Entered(e) : MwSteps(e, k, "exit") # {}

\* C16 witness: an emit has run through two middleware that await next and
\* has invoked a handler.
C16_Witness ==
    \E e \in StartedEmits :
        /\ InvocationsOf(e) # {}
        /\ Entered(e) = {1, 2}
        /\ \A i \in MwCallsOf(e) : mwCalls[i].mw \in {"pass", "wrap"}

\* C17: if a middleware throws or rejects during an emit, no later
\* middleware and no handler is invoked for that emit, and the emit fails.
C17_MiddlewareFailureAborts ==
    \A e \in StartedEmits :
        \A i \in MwCallsOf(e) :
            mwCalls[i].mw \in {"throw", "limit"} =>
                /\ \A k \in Entered(e) : k <= mwCalls[i].index
                /\ InvocationsOf(e) = {}
                /\ emits[e].pc \in {"chain", "done"}
                /\ emits[e].pc = "done" =>
                      /\ emits[e].result # <<>>
                      /\ emits[e].result[1] = "EMIT_ERROR"

\* C17 witness: the first of two middleware throws, a handler is subscribed
\* to the type of the event, and the emit has failed.
C17_Witness ==
    \E e \in DoneEmits :
        /\ Len(middleware) = 2
        /\ middleware[1] \in {"throw", "limit"}
        /\ emits[e].seen # <<>>
        /\ emits[e].result # <<>>
        /\ Entered(e) = {1}

\* C18: a failure of the chain that is not a bus error reaches the caller
\* as EMIT_ERROR caused by MIDDLEWARE_ERROR caused by the failure; a bus
\* error is the direct cause of the EMIT_ERROR.
C18_MiddlewareErrorWrapped ==
    \A e \in DoneEmits :
        /\ EnteredKind(e, {"throw"}) =>
               emits[e].result = EmitError(MiddlewareError(PlainError))
        /\ EnteredKind(e, {"limit"}) =>
               emits[e].result = EmitError(RateLimitExceeded)

(***************************************************************************)
(* Properties of error reporting.                                          *)
(***************************************************************************)
\* s is a prefix of t
IsPrefix(s, t) == Len(s) <= Len(t) /\ SubSeq(t, 1, Len(s)) = s

\* the emits that complete in this step
Completing == {e \in EmitIds : emits[e].pc # "done" /\ emits'[e].pc = "done"}

\* the emit was at its validation and the event does not pass it
FailsValidation(e) ==
    /\ emits[e].pc = "import"
    /\ \/ ~validateEvent(emits[e].event).isValid
       \/ ValidatorsGet(emits[e].event.type) = "reject"

\* the emit was at the end of a chain that failed
FailsInChain(e) == emits[e].pc = "chain" /\ emits[e].chainErr # <<>>

\* the failed invocations that emit e has made when the step is done
FailedInvocations(e) ==
    {i \in 1..Len(invocations') :
        invocations'[i].emit = e /\ invocations'[i].orig = "failed"}

\* C19: an emit that fails at any stage (built-in validation, custom
\* validator, middleware, handler) completes with an EMIT_ERROR whose
\* originalError is the cause, and that error is appended to stats.errors;
\* an emit that completes without an error has met no failure; and while
\* clear() is not called stats.errors only grows at its end.
C19_Step ==
    /\ nClear' = nClear => IsPrefix(stats.errors, stats'.errors)
    /\ \A e \in Completing :
          LET r == emits'[e].result IN
          /\ FailsValidation(e) => r = EmitError(ValidationError)
          /\ FailsInChain(e) => r = EmitError(emits[e].chainErr)
          /\ FailedInvocations(e) # {} =>
                r \in {EmitError(PlainError),
                       EmitError(HandlerError(PlainError))}
          /\ r = <<>> =>
                ~FailsValidation(e) /\ ~FailsInChain(e)
                    /\ FailedInvocations(e) = {}
          /\ r # <<>> =>
                /\ r[1] = "EMIT_ERROR"
                /\ Len(r) >= 2
                /\ Len(stats'.errors) > Len(stats.errors)
                /\ stats'.errors[Len(stats'.errors)] = r

C20_HandlerErrorRecorded ==
    \A i \in 1..Len(invocations) :
        ( /\ invocations[i].handler.kind = "plain"
          /\ invocations[i].orig = "failed"
          /\ emits[invocations[i].emit].pc = "done" )
        => \E k \in 1..Len(stats.errors) :
               stats.errors[k] = HandlerError(PlainError)

(***************************************************************************)
(* Properties of the statistics.                                           *)
(***************************************************************************)
\* C21: an emit that fails because exactly one handler fails (by a
\* synchronous throw or a rejected promise) or because a middleware fails
\* makes stats.errors exactly one entry longer.
C21_Step ==
    \A e \in Completing :
        (FailsInChain(e) \/ Cardinality(FailedInvocations(e)) = 1)
        => Len(stats'.errors) = Len(stats.errors) + 1

C22_Step ==
    \A e \in Completing :
        emits'[e].result = <<>> =>
            /\ stats'.totalEventsEmitted = stats.totalEventsEmitted + 1
            /\ emits[e].event.type.v \in Range(stats'.eventTypes)

C22_SuccessCounted == [][C22_Step]_vars

\* C23: an emit that fails, at whatever stage, leaves totalEventsEmitted
\* and eventTypes as they were.
C23_Step ==
    \A e \in Completing :
        emits'[e].result # <<>> =>
            /\ stats'.totalEventsEmitted = stats.totalEventsEmitted
            /\ stats'.eventTypes = stats.eventTypes

C23_FailureNotCounted == [][C23_Step]_vars

\* C23 witness: an emit of a type that nobody subscribed to has failed in
\* the middleware chain; nothing was counted and eventTypes is empty.
C23_Witness ==
    \E e \in DoneEmits :
        /\ nClear = 0
        /\ nSub = 0
        /\ middleware = <<"throw">>
        /\ emits[e].result = EmitError(PlainError)
        /\ stats.totalEventsEmitted = 0
        /\ stats.eventTypes = <<>>
        /\ Len(stats.errors) = 1

\* C24: writing to the object returned by getStats() leaves the live
\* statistics (what a later getStats() returns) unchanged, and as long as
\* the caller has not written to it the object reads as it did when it was
\* returned, whatever the bus does afterwards.
C24_Step ==
    /\ (caller'.snapshot.mutated /\ ~caller.snapshot.mutated)
           => stats' = stats
    /\ (caller'.snapshot.taken /\ ~caller'.snapshot.mutated)
           => SnapshotView(caller'.snapshot, stats')
                  = caller'.snapshot.returned

C24_SnapshotIsolated == [][C24_Step]_vars

\* C25: clear() empties the registry, zeroes totalEventsEmitted and
\* activeSubscriptions, empties eventTypes and errors, sets middlewareCount
\* to the number of installed middleware, and leaves the middleware list
\* and the validators alone; an emit called after it invokes no handler
\* subscribed before it, and still runs the installed middleware.
C25_Step ==
    /\ nClear' = nClear + 1 =>
          /\ \A t \in Types : handlers'[t] = <<>>
          /\ stats'.totalEventsEmitted = 0
          /\ stats'.activeSubscriptions = 0
          /\ stats'.eventTypes = <<>>
          /\ stats'.errors = <<>>
          /\ stats'.middlewareCount = Len(middleware')
          /\ middleware' = middleware
          /\ validators' = validators
    /\ \A e \in StartedEmits :
          emits[e].clears >= 1 =>
            /\ \A i \in InvocationsOf(e) :
                  \E s \in 1..Len(subscriptions) :
                      /\ subscriptions[s].handler = invocations[i].handler
                      /\ subscriptions[s].eventType = emits[e].event.type.v
                      /\ subscriptions[s].clears >= emits[e].clears
            /\ ( /\ emits[e].pc \in {"chain", "fanout"}
                 /\ \A k \in 1..Len(middleware) : middleware[k] = "pass" )
               => Entered(e) = 1..Len(middleware)

C25_ClearResets == [][C25_Step]_vars

\* C25 witness: a middleware was installed and a handler subscribed, then
\* clear() was called, and an emit of the handler's type called after it
\* has run the middleware and completed without invoking the handler.
C25_Witness ==
    \E e \in DoneEmits :
        /\ nClear = 1
        /\ emits[e].clears = 1
        /\ middleware = <<"pass">>
        /\ stats.middlewareCount = 1
        /\ Len(subscriptions) = 1
        /\ subscriptions[1].clears = 0
        /\ subscriptions[1].eventType = emits[e].event.type.v
        /\ Entered(e) = {1}
        /\ InvocationsOf(e) = {}
        /\ emits[e].result = <<>>

(***************************************************************************)
(* Properties of the singleton.                                            *)
(***************************************************************************)
\* C26: every getInstance call returns the same bus object, whose
\* configuration is the one passed to the first call; a later call, with
\* whatever configuration, changes neither the configuration nor the state
\* of the bus.
C26_Step ==
    Len(caller'.instances) = Len(caller.instances) + 1 =>
        /\ \A i \in 1..Len(caller'.instances) :
              caller'.instances[i].ref = caller'.instances[1].ref
        /\ config' = caller'.instances[1].cfg
        /\ InstanceExists(instance) =>
              /\ instance' = instance
              /\ UNCHANGED <<config, handlers, middleware, validators, stats>>

CalledNext(e, k) ==
    \E x \in 1..Len(emits[e].unwind) : emits[e].unwind[x].index = k

\* the positions in mwCalls at which a middleware of kind m is entered
CallsOfKind(m) ==
    {i \in 1..Len(mwCalls) :
        /\ mwCalls[i].phase = "enter"
        /\ middleware[mwCalls[i].index] = m}

\* when the invocation at position i of mwCalls was made
CalledAt(i) == emits[mwCalls[i].emit].at

\* the invocation at position i of mwCalls went on to next, and its emit
\* does not fail
Admitted(i) ==
    LET e == mwCalls[i].emit IN
    /\ CalledNext(e, mwCalls[i].index)
    /\ emits[e].chainErr = <<>>
    /\ emits[e].pc = "done" => emits[e].result = <<>>

\* the invocation at position i of mwCalls failed with a rate-limit error
\* without calling next, and its emit fails with that error
RateLimited(i) ==
    LET e == mwCalls[i].emit IN
    /\ ~CalledNext(e, mwCalls[i].index)
    /\ \A k \in Entered(e) : k <= mwCalls[i].index
    /\ emits[e].chainErr = RateLimitExceeded
    /\ InvocationsOf(e) = {}
    /\ emits[e].pc = "done" => emits[e].result = EmitError(RateLimitExceeded)

\* C27: of the invocations of a rate-limit middleware with limit N that
\* fall within one window (less than 1000 ms after the first), the first N
\* go on to next and their emits succeed; every further one fails with
\* RATE_LIMIT_EXCEEDED without calling next, and so does its emit.
C27_RateLimit ==
    \A i \in CallsOfKind("ratelimit") :
        LET Earlier == {j \in CallsOfKind("ratelimit") : j < i} IN
        (\A j \in Earlier : CalledAt(i) - CalledAt(j) < WindowSize)
        => IF Cardinality(Earlier) < closures.maxEventsPerSecond
           THEN Admitted(i) ELSE RateLimited(i)

\* C27 witness: with limit N and a subscribed handler, N + 1 emits were
\* made at one instant; the first N have succeeded and invoked the
\* handler, the last has failed with the rate-limit error.
C27_Witness ==
    LET N == closures.maxEventsPerSecond IN
    /\ middleware = <<"ratelimit">>
    /\ N >= 1
    /\ DoneEmits = 1..(N + 1)
    /\ \A e \in 1..N :
          /\ emits[e].result = <<>>
          /\ Cardinality(InvocationsOf(e)) = 1
          /\ emits[e].at = emits[N + 1].at
    /\ Entered(N + 1) = {1}
    /\ emits[N + 1].result = EmitError(RateLimitExceeded)
    /\ InvocationsOf(N + 1) = {}

\* C28: an invocation of the rate-limit middleware that arrives exactly
\* 1000 ms after N invocations that were accepted at one instant (those
\* being all the earlier ones) is accepted.
C28_BoundaryEvicted ==
    \A i \in CallsOfKind("ratelimit") :
        LET Earlier == {j \in CallsOfKind("ratelimit") : j < i} IN
        ( /\ Cardinality(Earlier) = closures.maxEventsPerSecond
          /\ \A j \in Earlier : CalledAt(i) - CalledAt(j) = WindowSize )
        => Admitted(i)

\* C29: when a transform middleware is installed and an emit has run its
\* chain, every handler invoked for that emit receives the transformed
\* event.
C29_HandlersGetTransformed ==
    \A e \in StartedEmits :
        (CallsOfKind("transform") \cap MwCallsOf(e)) # {} =>
            \A i \in InvocationsOf(e) :
                invocations[i].arg = Transform(emits[e].event)

\* C30: every invocation of a batch middleware calls next (once), whether
\* it flushes the buffer or arms the timer, and does not fail; when no
\* other middleware stops the event, every emit invokes each handler
\* subscribed to its type once, so k emits invoke a handler k times.
C30_BatchPassesOn ==
    /\ \A i \in CallsOfKind("batch") :
          LET e == mwCalls[i].emit IN
          /\ emits[e].pc \in {"chain", "fanout", "done"}
                => CalledNext(e, mwCalls[i].index)
          /\ "ratelimit" \notin Range(middleware) => emits[e].chainErr = <<>>
    /\ ("batch" \in Range(middleware)
            /\ "ratelimit" \notin Range(middleware))
       => /\ \A e \in DoneEmits :
                /\ emits[e].result = <<>>
                /\ \A h \in Range(emits[e].seen) :
                      Cardinality({i \in InvocationsOf(e) :
                                      invocations[i].handler = h}) = 1
          /\ \A s \in 1..Len(subscriptions) :
                Cardinality({i \in 1..Len(invocations) :
                    /\ invocations[i].handler = subscriptions[s].handler
                    /\ emits[invocations[i].emit].pc = "done"})
                  = Cardinality(DoneEmits)

\* C30 witness: a batch middleware of size 2 is installed; the first emit
\* armed its timer and the second filled and flushed the buffer; both
\* have completed and the handler has been invoked twice.
C30_Witness ==
    /\ middleware = <<"batch">>
    /\ closures.batchSize = 2
    /\ closures.batch = 0
    /\ ~closures.timeout
    /\ DoneEmits = {1, 2}
    /\ Len(subscriptions) = 1
    /\ Len(invocations) = 2
    /\ \A e \in DoneEmits :
          /\ Cardinality(InvocationsOf(e)) = 1
          /\ CalledNext(e, 1)

(***************************************************************************)
(* Properties of the timeout option.                                       *)
(***************************************************************************)
\* the invocations whose timer fires in this step
TimingOut ==
    {i \in 1..Len(invocations) :
        /\ invocations[i].cause # HandlerTimeout
        /\ invocations'[i].cause = HandlerTimeout}

\* C31: for a handler subscribed with a timeout, the timer fires only
\* while the handler has not completed, and it can fire however long the
\* handler runs; when it fires, the emit (unless it has already failed)
\* is rejected with HANDLER_TIMEOUT: it can complete at once, whatever
\* handlers are still running, and completes with EMIT_ERROR caused by
\* HANDLER_TIMEOUT.  Once the handler has completed, the timeout never
\* becomes the cause of a failure.
C31_Step ==
    /\ \A i \in 1..Len(invocations) :
          LET e == invocations[i].emit IN
          /\ ( /\ invocations[i].handler.kind = "timeout"
               /\ invocations[i].orig = "running"
               /\ invocations[i].prom = "pending" )
             => ENABLED TimerFire(i)
          /\ i \in TimingOut =>
                /\ invocations[i].handler.kind = "timeout"
                /\ invocations[i].orig = "running"
                /\ (emits[e].pc = "fanout" /\ emits[e].rejected = <<>>)
                      => /\ emits'[e].rejected = HandlerTimeout
                         /\ emits'[e].pc = "fanout"
          /\ invocations[i].orig # "running" => i \notin TimingOut
    /\ \A e \in EmitIds :
          /\ (emits[e].pc = "fanout" /\ emits[e].rejected # <<>>)
                => ENABLED EmitSettle(e)
          /\ (e \in Completing /\ emits[e].rejected = HandlerTimeout)
                => emits'[e].result = EmitError(HandlerTimeout)

C31_TimeoutFailsEmit == [][C31_Step]_vars

\* C31 witness: an emit has failed with EMIT_ERROR caused by
\* HANDLER_TIMEOUT while the handler it invoked is still running.
C31_Witness ==
    \E e \in DoneEmits :
        /\ emits[e].result = EmitError(HandlerTimeout)
        /\ Cardinality(InvocationsOf(e)) = 1
        /\ \A i \in InvocationsOf(e) :
              /\ invocations[i].handler.kind = "timeout"
              /\ invocations[i].orig = "running"

(***************************************************************************)
(* Properties of the custom validators.                                    *)
(***************************************************************************)
\* what the latest addValidator or removeValidator call for the type
\* left registered, by the calls made
RECURSIVE LatestValidator(_, _)
LatestValidator(calls, type) ==
    IF calls = <<>> THEN "none"
    ELSE LET c == calls[Len(calls)] IN
         IF c.eventType = type THEN c.v
         ELSE LatestValidator(SubSeq(calls, 1, Len(calls) - 1), type)

\* the emits that pass their validation stage in this step, one way or
\* the other
Validating ==
    {e \in EmitIds : emits[e].pc = "import" /\ emits'[e].pc # "import"}

\* C32: (on a bus with validation enabled) an emit of a well-formed event
\* is rejected at its validation stage exactly when the validator that
\* the latest addValidator call for its type registered, with no
\* removeValidator for the type since, returns isValid false; the calls
\* for other types do not matter.  A rejected emit fails with
\* VALIDATION_ERROR and has run no middleware and no handler.
C32_Step ==
    \A e \in Validating :
        LET type == emits[e].event.type.v
            v == LatestValidator(caller.validatorCalls, type)
        IN
        validateEvent(emits[e].event).isValid =>
            IF v = "reject"
            THEN /\ emits'[e].pc = "done"
                 /\ emits'[e].result = EmitError(ValidationError)
                 /\ \A i \in 1..Len(mwCalls') : mwCalls'[i].emit # e
                 /\ \A i \in 1..Len(invocations') :
                       invocations'[i].emit # e
            ELSE /\ emits'[e].pc = "chain"
                 /\ \E i \in 1..Len(mwCalls') : mwCalls'[i].emit = e

Starting == {e \in EmitIds : emits[e].pc = "idle" /\ emits'[e].pc # "idle"}

\* C33: an emit called while a validator that returns isValid false is
\* registered for the type of its event does not get to the middleware
\* chain without validation, also when enableValidation is false.
C33_Step ==
    \A e \in Starting :
        LET type == emits'[e].event.type.v IN
        validators[type] = "reject" =>
            /\ emits'[e].pc \in {"import", "done"}
            /\ \A i \in 1..Len(mwCalls') : mwCalls'[i].emit # e

C33_ValidatorRunsWhenValidationOff == [][C33_Step]_vars

(***************************************************************************)
(* Properties of the middleware list.                                      *)
(***************************************************************************)
\* C34: in every reachable state stats.middlewareCount is the length of
\* the middleware list; removeMiddleware takes out one entry, the first
\* that is the given function, and changes nothing when there is none.
C34_Step ==
    /\ stats.middlewareCount = Len(middleware)
    /\ stats'.middlewareCount = Len(middleware')
    /\ Len(middleware') < Len(middleware) =>
          /\ Len(middleware') = Len(middleware) - 1
          /\ \E k \in 1..Len(middleware) :
                /\ middleware' = Splice(middleware, k)
                /\ \A j \in 1..(k - 1) : middleware[j] # middleware[k]

C34_CountIsLength == [][C34_Step]_vars

\* C34 witness: the bus was constructed with two default middleware (the
\* same function twice), one was removed and clear() was called: one
\* middleware is left and counted, and a removeMiddleware of a function
\* that is not installed is possible.
C34_Witness ==
    /\ config.defaultMiddleware = <<"pass", "pass">>
    /\ middleware = <<"pass">>
    /\ stats.middlewareCount = 1
    /\ nClear = 1
    /\ IndexOf(middleware, "wrap") = 0

(***************************************************************************)
(* Properties of the state kept by the factory middleware.                 *)
(***************************************************************************)
\* C35: with a batch middleware installed, the buffer always holds fewer
\* than batchSize events (it is emptied in the invocation that fills
\* it), a timer is armed whenever the buffer is not empty, and a buffer
\* that is not empty is eventually emptied.
C35_BatchFlushes ==
    /\ []("batch" \in Range(middleware) =>
             /\ closures.batch < closures.batchSize
             /\ closures.batch > 0 => closures.timeout)
    /\ (closures.batch > 0) ~> (closures.batch = 0)

\* C35 witness: with batchSize 2, three events went through the batch
\* middleware; the buffer was emptied on the way (by the event that
\* filled it, or by the timer), the third event is buffered and the timer
\* is armed again.
C35_Witness ==
    /\ middleware = <<"batch">>
    /\ closures.batchSize = 2
    /\ Cardinality(CallsOfKind("batch")) = 3
    /\ closures.batch = 1
    /\ closures.timeout

\* the invocations of the rate-limit middleware made in this step, as
\* positions in mwCalls'
RateLimitCalls ==
    {i \in (Len(mwCalls) + 1)..Len(mwCalls') :
        /\ mwCalls'[i].phase = "enter"
        /\ middleware[mwCalls'[i].index] = "ratelimit"}

\* C36: the rate-limit middleware never holds more than N timestamps; an
\* invocation that it rejects adds none; and an invocation made more than
\* 1000 ms after the oldest recorded timestamp is accepted and recorded,
\* however many invocations were rejected in between.
C36_Step ==
    LET ts == closures.eventTimestamps
        ts1 == closures'.eventTimestamps
    IN
    /\ "ratelimit" \in Range(middleware') =>
          Len(ts1) <= closures'.maxEventsPerSecond
    /\ \A i \in RateLimitCalls :
          /\ mwCalls'[i].mw \in {"admit", "limit"}
          /\ mwCalls'[i].mw = "limit" =>
                /\ Len(ts1) <= Len(ts)
                /\ ts1 = SubSeq(ts, Len(ts) - Len(ts1) + 1, Len(ts))
          /\ (ts # <<>> /\ now - ts[1] > WindowSize) =>
                /\ mwCalls'[i].mw = "admit"
                /\ ts1 # <<>>
                /\ ts1[Len(ts1)] = now

C36_LockOutEnds == [][C36_Step]_vars

\* C36 witness: with limit 1, an invocation was accepted at 0, one was
\* rejected within the window, and one made at 1001 was accepted; only
\* its timestamp is recorded.
C36_Witness ==
    /\ middleware = <<"ratelimit">>
    /\ closures.maxEventsPerSecond = 1
    /\ DoneEmits = {1, 2, 3}
    /\ emits[1].at = 0
    /\ emits[1].result = <<>>
    /\ emits[2].at \in {999, 1000}
    /\ emits[2].result = EmitError(RateLimitExceeded)
    /\ emits[3].at = 1001
    /\ emits[3].result = <<>>
    /\ closures.eventTimestamps = <<1001>>

(***************************************************************************)
(* Properties of calls that overlap an emit.                               *)
(***************************************************************************)
\* the positions in mwCalls at which emit e enters the function m
EntersOf(e, m) ==
    {i \in MwCallsOf(e) : mwCalls[i].mw = m /\ mwCalls[i].phase = "enter"}

\* C37: when the chain of an emit has ended, every middleware that was
\* installed when the emit was called and still is (here no function is
\* installed again after its removal, and none twice) has been invoked
\* by the emit once, those invoked were invoked in installation order,
\* and none twice, whatever use and removeMiddleware calls were made
\* while the emit was suspended in the chain.
C37_ChainStableUnderChange ==
    \A e \in StartedEmits :
        emits[e].pc \in {"chain", "fanout", "done"} =>
            /\ \A m \in Range(emits[e].chain) \cap Range(middleware) :
                  Cardinality(EntersOf(e, m)) = 1
            /\ \A m \in MwKinds \cup {"defer"} :
                  Cardinality(EntersOf(e, m)) <= 1
            /\ \A k1, k2 \in 1..Len(emits[e].chain) :
                  k1 < k2 =>
                    \A i \in EntersOf(e, emits[e].chain[k1]),
                       j \in EntersOf(e, emits[e].chain[k2]) : i < j

\* the emits whose fan-out is made in this step
FanningOut ==
    {e \in EmitIds :
        /\ emits[e].pc = "chain"
        /\ emits'[e].pc \in {"fanout", "done"}
        /\ emits'[e].targets # <<>>}

\* the invocations that emit e has made when the step is done
InvocationsAfter(e) ==
    {i \in 1..Len(invocations') : invocations'[i].emit = e}

\* C38: a fan-out in which no handler throws synchronously invokes every
\* handler that was registered for the type of the event when it started
\* exactly once, and no other, whatever the invoked handlers subscribe
\* or unsubscribe while it runs; and once the fan-out is made the emit
\* invokes nothing more, whatever once wrappers remove afterwards.
C38_Step ==
    /\ \A e \in FanningOut :
          LET before == HandlersGet(handlers, emits[e].event.type) IN
          (\A i \in InvocationsAfter(e) : invocations'[i].prom # "thrown")
          => /\ \A k \in 1..Len(before) :
                   Cardinality({i \in InvocationsAfter(e) :
                       invocations'[i].handler = before[k]}) = 1
             /\ \A i \in InvocationsAfter(e) :
                   invocations'[i].handler \in Range(before)
    /\ \A e \in EmitIds :
          emits[e].pc \in {"fanout", "done"} =>
              InvocationsAfter(e) = InvocationsOf(e)

C38_FanOutUnaffected == [][C38_Step]_vars

\* C38 witness: two handlers were registered, the first as a once
\* handler; in the fan-out the first unsubscribed the second and the
\* second subscribed another function; both were invoked once, the once
\* wrapper has removed itself, and only the function subscribed during
\* the fan-out is registered, which was not invoked.
C38_Witness ==
    \E e \in DoneEmits :
        /\ Len(emits[e].targets) = 2
        /\ emits[e].targets[1].kind = "once"
        /\ Len(invocations) = 2
        /\ invocations[1].handler = emits[e].targets[1]
        /\ invocations[1].did = "unsub"
        /\ invocations[2].handler = emits[e].targets[2]
        /\ invocations[2].did = "sub"
        /\ handlers["t1"] = <<Plain("late")>>

\* the emits that resume after their middleware chain in this step
LeavingChain ==
    {e \in EmitIds : emits[e].pc = "chain" /\ emits'[e].pc # "chain"}

\* the handlers that emit e has invoked when the step is done
InvokedAfter(e) == {invocations'[i].handler : i \in InvocationsAfter(e)}

\* C39: an emit whose chain has completed (and in whose fan-out no
\* handler throws synchronously) invokes the handlers that are registered
\* for its type at that moment: also those subscribed since the emit was
\* called, and not those unsubscribed since.
C39_Step ==
    \A e \in LeavingChain :
        LET registered == Range(HandlersGet(handlers, emits[e].event.type))
            atCall == Range(emits[e].seen)
        IN
        ( /\ emits[e].chainErr = <<>>
          /\ \A i \in InvocationsAfter(e) : invocations'[i].prom # "thrown" )
        => /\ InvokedAfter(e) = registered
           /\ \A h \in registered \ atCall : h \in InvokedAfter(e)
           /\ \A h \in atCall \ registered : h \notin InvokedAfter(e)

Quiet(e) ==
    /\ emits[e].pc # "suspended"
    /\ \A i \in InvocationsOf(e) : invocations[i].orig # "running"

InFlight(e) == emits[e].pc \notin {"idle", "done"}

Completed(e) == emits[e].pc = "done"

\* emit returned, or threw an EmitError
SuccessOrEmitError(e) ==
    \/ emits[e].result = <<>>
    \/ /\ Len(emits[e].result) > 1
       /\ emits[e].result = EmitError(Tail(emits[e].result))

\* first half: an emit whose middleware and handlers all terminate
\* terminates, with success or with an EmitError
C40_Terminates ==
    \A e \in 1..TermMaxEmits :
        /\ ([]<>Quiet(e)) => (InFlight(e) ~> Completed(e))
        /\ [](Completed(e) => SuccessOrEmitError(e))

\* a function subscribed without the timeout option that emit e invoked
\* is still running
HangingUntimed(e) ==
    \E i \in InvocationsOf(e) :
        /\ invocations[i].handler.kind # "timeout"
        /\ invocations[i].orig = "running"

\* second half: nothing makes a running function complete, so an emit that
\* never completes beside a function that never completes is an emit that
\* has not completed while the function is running
C40_HangingBlocks ==
    [](\A e \in EmitIds : HangingUntimed(e) => ~Completed(e))

\* C40: if every middleware invocation and every handler invocation of an
\* emit terminates, the emit call terminates, with success or with an
\* EmitError; an emit that invokes a handler which never completes and was
\* subscribed without the timeout option never completes.
C40_TerminatesAndBlocks == C40_Terminates /\ C40_HangingBlocks

\* the emit of the first half has happened: an emit whose handler completed
\* late has completed
C40_Terminated ==
    \E e \in EmitIds :
        /\ Completed(e)
        /\ emits[e].targets # <<>>
        /\ \A i \in InvocationsOf(e) : invocations[i].did = "pending"
        /\ Quiet(e)

====
